---- MODULE Spec2Model ----
(***************************************************************************)
(* A model of gmail-archiver: the archive control loop (src/main.rs) over  *)
(* the mirror store (src/store.rs), and the paginated, hydrating message   *)
(* stream (src/client.rs).                                                 *)
(***************************************************************************)
EXTENDS Integers, Sequences, FiniteSets, TLC

(***************************************************************************)
(* Bounds of the model.                                                    *)
(***************************************************************************)
MaxLabels == 2
MaxMsgs == 2
MaxRuns == 3
MaxPages == 3
MaxPageSize == 2
NumCallers == 2
MaxTime == 3
MaxExpiresIn == 2
InitialInterval == 1
MaxInterval == 3
MaxElapsedTime == 6
MaxLatency == 1
MaxDepth == 3
MaxChildren == 2
MaxGrants == 3
NumCallbacks == 3

\* client.rs: mpsc::channel(32)
ChannelCapacity == 32

Null == "null"

Last(s) == s[Len(s)]
Front(s) == SubSeq(s, 1, Len(s) - 1)
Range(s) == {s[i] : i \in 1..Len(s)}

(***************************************************************************)
(* model.rs: the recursive message structure.                              *)
(***************************************************************************)
MessagePartBody(att, data) == [attachment_id |-> att, data |-> data]

MessagePart(pid, att, data, parts) ==
    [part_id |-> pid, body |-> MessagePartBody(att, data), parts |-> parts]

FullMessage(id, labelIds, payload) ==
    [id |-> id, label_ids |-> labelIds, payload |-> payload]

\* Every part of the tree rooted at a part.
RECURSIVE AllParts(_)
AllParts(part) ==
    {part} \cup UNION {AllParts(part.parts[i]) : i \in 1..Len(part.parts)}

\* internalDate as the remote sends it, a JSON string or null: epoch
\* milliseconds, text that is no number, digits beyond i64, and an i64 beyond
\* the years chrono can represent.
DateStrings == { "1700000000000", "yesterday", "99999999999999999999",
                 "9223372036854775807", Null }

\* s.parse::<i64>()
ParsesAsI64(s) == s \in { "1700000000000", "9223372036854775807" }

\* DateTime::from_timestamp_millis(millis) is Some.
InTimestampRange(s) == s = "1700000000000"

\* deserialize_unix_ts_str succeeds: a string, an i64, a representable time.
deserialize_unix_ts_str(s) == s # Null /\ ParsesAsI64(s) /\ InTimestampRange(s)

\* data / raw as the remote sends it: base64url with padding, the same
\* without its padding, text with a symbol outside the alphabet, or null.
Base64Strings == { "aGVsbG8=", "aGVsbG8", "aGVs*G8=", Null }

\* URL_SAFE.decode(s) is Ok: the alphabet of base64url, canonical padding.
URL_SAFE_decode(s) == s = "aGVsbG8="

\* Faulty variant: whatever the text, some bytes come out.
deserialize_base64_lossy(s) == TRUE

\* deserialize_base64 succeeds: a string that decodes.
deserialize_base64(s) == s # Null /\ URL_SAFE_decode(s)

\* deserialize_optional_base64 succeeds: null, or a string that decodes.
deserialize_optional_base64(s) == s = Null \/ deserialize_base64(s)

\* The text is no timestamp in epoch milliseconds; the text is no base64url.
MalformedDate(s) == s # "1700000000000"
MalformedBase64(s) == s = "aGVs*G8="

\* The fields of a fetched record that are decoded while it is deserialized.
Wires == [internal_date : DateStrings, data : Base64Strings]

\* serde_json::from_str::<FullMessage> / <RawMessage> / <Attachment> succeed.
DecodesFullMessage(w) ==
    deserialize_unix_ts_str(w.internal_date) /\ deserialize_optional_base64(w.data)
DecodesRawMessage(w) ==
    deserialize_unix_ts_str(w.internal_date) /\ deserialize_base64(w.data)
DecodesAttachment(w) == deserialize_base64(w.data)

\* A single-part message with inline data.
PlainPayload == MessagePart("", Null, "d0", <<>>)

\* A multipart message: an inline part and a part that references an attachment.
AttachPayload ==
    MessagePart("", Null, Null,
        << MessagePart("0", Null, "d1", <<>>),
           MessagePart("1", "a1", Null, <<>>) >>)

\* Three levels of nesting; attachment a1 is referenced by two parts.
NestedPayload ==
    MessagePart("", Null, Null,
        << MessagePart("0", Null, Null,
               << MessagePart("0.0", "a1", Null, <<>>),
                  MessagePart("0.1", "a2", Null, <<>>) >>),
           MessagePart("1", "a1", Null, <<>>) >>)

\* A part that carries both an attachment id and inline data.
InlineAttachPayload == MessagePart("", "a3", "d3", <<>>)

\* Two parts of one message with the same part id.
RepeatedPartPayload ==
    MessagePart("", Null, Null,
        << MessagePart("0", Null, "d1", <<>>),
           MessagePart("0", "a1", Null, <<>>) >>)

\* What the remote holds for a message, except its id.
MessageVariants ==
    { [label_ids |-> <<>>, payload |-> PlainPayload],
      [label_ids |-> <<1>>, payload |-> AttachPayload],
      [label_ids |-> <<1, 2>>, payload |-> NestedPayload],
      [label_ids |-> <<2>>, payload |-> InlineAttachPayload],
      [label_ids |-> <<>>, payload |-> RepeatedPartPayload] }

\* The remote mailboxes of the model: the labels the label listing returns, and
\* the listed messages (ids 1..n in listing order) with their full records.
Mailboxes ==
    { [labels |-> [i \in 1..nl |-> i], messages |-> msgs] :
        nl \in 0..MaxLabels,
        msgs \in UNION { [1..n -> MessageVariants] : n \in 0..MaxMsgs } }

\* client.list_messages(): the stub the stream yields after k stubs, in listing
\* order, and 0 (None) once the listing is exhausted.
ListedStub(mb, k) == IF k < Len(mb.messages) THEN k + 1 ELSE 0

RemoteMessage(mb, i) ==
    FullMessage(i, mb.messages[i].label_ids, mb.messages[i].payload)

(***************************************************************************)
(* store.rs: the tables and the operations on them.  An operation returns  *)
(* [ok, err, store]; a failed statement leaves the store as it was.        *)
(***************************************************************************)
EmptyStore ==
    [ labels |-> {}, messages |-> {}, message_labels |-> {},
      message_parts |-> {}, message_part_body |-> {},
      message_attachments |-> {}, raw_messages |-> {} ]

Ok(st) == [ok |-> TRUE, err |-> "none", store |-> st]
Err(kind, st) == [ok |-> FALSE, err |-> kind, store |-> st]

contains_label(st, id) == \E r \in st.labels : r.id = id

\* Faulty variant: the check reads raw_messages instead of messages.
contains_message_raw_table(st, id) == \E r \in st.raw_messages : r.message_id = id

contains_message(st, id) == \E r \in st.messages : r.id = id

\* Faulty variant: the check finds nothing.
contains_message_attachment_never(st, mid, aid) == FALSE

\* Faulty variant: the check ignores the attachment id.
contains_message_attachment_any(st, mid, aid) ==
    \E r \in st.message_attachments : r.message_id = mid

contains_message_attachment(st, mid, aid) ==
    \E r \in st.message_attachments : r.message_id = mid /\ r.attachment_id = aid

\* Faulty variant: the check reads message_attachments instead of raw_messages.
contains_raw_message_wrong_table(st, mid) ==
    \E r \in st.message_attachments : r.message_id = mid

contains_raw_message(st, mid) == \E r \in st.raw_messages : r.message_id = mid

message_count(st) == Cardinality(st.messages)

insert_label(st, label) ==
    IF \E r \in st.labels : r.id = label.id
    THEN Err("pk", st)
    ELSE Ok([st EXCEPT !.labels = @ \cup {label}])

\* INSERT INTO messages: primary key id.
InsertMessageRow(st, message) ==
    IF \E r \in st.messages : r.id = message.id
    THEN Err("pk", st)
    ELSE Ok([st EXCEPT !.messages = @ \cup {[id |-> message.id]}])

\* Faulty variant: message_labels without its foreign key to labels.
InsertMessageLabelNoForeignKey(st, message, i) ==
    LET row == [message_id |-> message.id, label_id |-> message.label_ids[i]]
    IN IF row \in st.message_labels THEN Err("pk", st)
       ELSE Ok([st EXCEPT !.message_labels = @ \cup {row}])

\* INSERT INTO message_labels VALUES (?, ?): primary key (message_id,
\* label_id), foreign keys to messages and labels.
InsertMessageLabel(st, message, i) ==
    LET row == [message_id |-> message.id, label_id |-> message.label_ids[i]]
    IN IF row \in st.message_labels THEN Err("pk", st)
       ELSE IF ~ \E r \in st.labels : r.id = row.label_id THEN Err("fk", st)
       ELSE IF ~ \E r \in st.messages : r.id = row.message_id THEN Err("fk", st)
       ELSE Ok([st EXCEPT !.message_labels = @ \cup {row}])

\* for label_id in &message.label_ids: INSERT INTO message_labels.
RECURSIVE InsertMessageLabels(_, _, _)
InsertMessageLabels(st, message, i) ==
    IF i > Len(message.label_ids) THEN Ok(st)
    ELSE LET r == InsertMessageLabel(st, message, i)
         IN IF r.ok THEN InsertMessageLabels(r.store, message, i + 1) ELSE r

\* Faulty variant: the child ids in the order the stack pops the children.
ChildIdsAsPopped(part) ==
    [i \in 1..Len(part.parts) |-> part.parts[Len(part.parts) + 1 - i].part_id]

\* The children of a part as the loop visits them: the recorded child ids.
ChildIds(part) == [i \in 1..Len(part.parts) |-> part.parts[i].part_id]

\* serde_json::to_string(&children): the JSON text of a list of strings, an
\* array of string values.
to_string(children) ==
    [ json |-> "array",
      items |-> [i \in 1..Len(children) |-> [json |-> "string", text |-> children[i]]] ]

\* ?::JSON::TEXT[]: the JSON array becomes a list of TEXT, each string value
\* its text.
CastJsonTextList(j) == [i \in 1..Len(j.items) |-> j.items[i].text]

\* INSERT INTO message_parts VALUES (.., ?::JSON::TEXT[]): primary key
\* (message_id, part_id), foreign key to messages.
InsertPartRow(st, mid, part) ==
    LET row == [message_id |-> mid, part_id |-> part.part_id,
                children |-> CastJsonTextList(to_string(ChildIds(part)))]
    IN IF \E r \in st.message_parts :
              r.message_id = mid /\ r.part_id = part.part_id
       THEN Err("pk", st)
       ELSE IF ~ \E r \in st.messages : r.id = mid THEN Err("fk", st)
       ELSE Ok([st EXCEPT !.message_parts = @ \cup {row}])

\* INSERT INTO message_part_body VALUES (..): foreign keys to message_parts
\* and messages; attachment_id is NULL when the part has none.
InsertPartBody(st, mid, part) ==
    LET row == [message_id |-> mid, part_id |-> part.part_id,
                attachment_id |-> part.body.attachment_id,
                data |-> part.body.data]
    IN IF ~ \E r \in st.message_parts :
              r.message_id = mid /\ r.part_id = part.part_id
       THEN Err("fk", st)
       ELSE IF ~ \E r \in st.messages : r.id = mid THEN Err("fk", st)
       ELSE Ok([st EXCEPT !.message_part_body = @ \cup {row}])

\* Faulty variant: the children of the popped part are not pushed.
PopOnly(stack) == Front(stack)

\* message_parts.pop() with the children of the popped part pushed in order.
PopPush(stack) == Front(stack) \o Last(stack).parts

\* while let Some(message_part) = message_parts.pop(): one message_parts row
\* and one message_part_body row per popped part, its children pushed.
RECURSIVE InsertMessageParts(_, _, _)
InsertMessageParts(st, mid, stack) ==
    IF stack = <<>> THEN Ok(st)
    ELSE LET part == Last(stack)
             r1 == InsertPartRow(st, mid, part)
             r2 == IF r1.ok THEN InsertPartBody(r1.store, mid, part) ELSE r1
         IN IF r2.ok THEN InsertMessageParts(r2.store, mid, PopPush(stack))
            ELSE Err(r2.err, st)

\* One transaction: any failing statement rolls back to the store before it.
insert_message(st, message) ==
    LET r1 == InsertMessageRow(st, message)
        r2 == IF r1.ok THEN InsertMessageLabels(r1.store, message, 1) ELSE r1
        r3 == IF r2.ok THEN InsertMessageParts(r2.store, message.id, <<message.payload>>)
              ELSE r2
    IN IF r3.ok THEN r3 ELSE Err(r3.err, st)

\* Faulty variant: the new row replaces the attachments the message had.
insert_attachment_replacing(st, mid, aid) ==
    Ok([st EXCEPT !.message_attachments =
            {r \in @ : r.message_id # mid}
                \cup {[message_id |-> mid, attachment_id |-> aid]}])

insert_attachment(st, mid, aid) ==
    IF \E r \in st.message_attachments : r.message_id = mid /\ r.attachment_id = aid
    THEN Err("pk", st)
    ELSE IF ~ \E r \in st.messages : r.id = mid THEN Err("fk", st)
    ELSE Ok([st EXCEPT !.message_attachments =
                 @ \cup {[message_id |-> mid, attachment_id |-> aid]}])

insert_raw_message(st, mid) ==
    IF \E r \in st.raw_messages : r.message_id = mid THEN Err("pk", st)
    ELSE IF ~ \E r \in st.messages : r.id = mid THEN Err("fk", st)
    ELSE Ok([st EXCEPT !.raw_messages = @ \cup {[message_id |-> mid]}])

\* Faulty variant: the query without its attachment_id IS NOT NULL clause.
AttachmentIdRowsWithNull(st, mid) ==
    {r \in st.message_part_body : r.message_id = mid}

\* SELECT attachment_id FROM message_part_body WHERE message_id = ? AND
\* attachment_id IS NOT NULL: one value per matching row.
AttachmentIdRows(st, mid) ==
    {r \in st.message_part_body : r.message_id = mid /\ r.attachment_id # Null}

\* The orders in which the rows of a query without ORDER BY may come back.
RowOrders(rows) ==
    {s \in [1..Cardinality(rows) -> rows] : Range(s) = rows}

attachment_ids(st, mid) ==
    {[i \in 1..Len(s) |-> s[i].attachment_id] : s \in RowOrders(AttachmentIdRows(st, mid))}

(***************************************************************************)
(* main.rs: extract_attachment_ids, the stack walk over a fetched message. *)
(***************************************************************************)
RECURSIVE ExtractLoop(_, _)
ExtractLoop(parts, attachments) ==
    IF parts = <<>> THEN attachments
    ELSE LET part == Last(parts)
         IN ExtractLoop(Front(parts) \o part.parts,
                        IF part.body.attachment_id # Null
                        THEN Append(attachments, part.body.attachment_id)
                        ELSE attachments)

\* Faulty variant: only the root part is looked at, its children are never pushed.
extract_attachment_ids_root_only(message) ==
    IF message.payload.body.attachment_id # Null
    THEN <<message.payload.body.attachment_id>>
    ELSE <<>>

extract_attachment_ids(message) == ExtractLoop(<<message.payload>>, <<>>)

(***************************************************************************)
(* The state.  mailbox is the remote (unchanged across runs); store is the *)
(* database file; the rest are the locals of one run of main.               *)
(***************************************************************************)
VARIABLES
    mailbox,        \* the remote mailbox
    store,          \* the mirror store
    pc,             \* where the control loop of the current run stands
    run,            \* the number of runs started
    labelQueue,     \* fetch_labels: the listed labels not yet processed
    cursor,         \* fetch_messages: the index of the listed message in hand
    attQueue,       \* the attachment ids of the message in hand not yet processed
    hist,           \* what the current run has done so far
    prevOutcome,    \* how the run before the current one ended
    storeAtStart,   \* the store when the current run started
    pages,          \* the remote listing: the number of stubs on each page
    spc,            \* where the background task of messages() stands
    pageIdx,        \* the pages the task has received
    futures,        \* fetch_full_msgs: the FuturesOrdered of the page in hand
    sending,        \* the item the task is handing to tx.send
    chan,           \* the items in the channel
    rx,             \* the receiving end: open, dropped, or ended (saw None)
    received,       \* the items the consumer has taken, in order
    shist,          \* what the stream has done so far
    now,            \* the clock (Utc::now), in ticks
    tokens,         \* OAuthClient.tokens: the cached credential set
    persisted,      \* the row of the tokens table
    lock,           \* GmailClientInner.token_manager: the caller holding it, or 0
    cpc,            \* where each caller of access_token() stands
    got,            \* what access_token() returned to each caller
    thist,          \* what the accessor calls have done so far
    hpc,            \* where make_request stands
    bearer,         \* the bearer token of the request and its expiry
    interval,       \* ExponentialBackoff.current_interval
    wakeAt,         \* when the sleep before the next attempt ends
    response,       \* the response the retry loop returned
    outcome,        \* what make_request returned
    hhist,          \* what make_request has done so far
    db,             \* the committed tables of the database
    tx,             \* the tables as the open transaction sees them
    guard,          \* Store.conn: who holds the mutex of the connection
    ipc,            \* where insert_message stands
    imsg,           \* the message given to insert_message
    ilabel,         \* the index of the label id the label loop is at
    stack,          \* message_parts: the parts still to visit
    ires,           \* what insert_message returned
    seen,           \* what another store operation last read
    ihist,          \* what the insert_message call has done so far
    file,           \* the database file: its schema objects, marker and rows
    fileAtOpen,     \* the database file when the current open started
    opc,            \* where Store::open stands
    stmt,           \* execute_batch: the index of the statement to run next
    opens,          \* the number of times the store has been opened
    ohist,          \* what the opens of the store have done so far
    tokensTable,    \* the rows of the tokens table
    bpc,            \* where main stands between Store::open and its return
    oauthTokens,    \* OAuthClient.tokens of the running process
    boots,          \* the number of times the program has been started
    bhist,          \* what the starts of the program have done so far
    cbpc,           \* where the handler of each callback request stands
    cbreq,          \* the query of each callback request
    cancelled,      \* ServerStateInner.cancel: the token is cancelled
    sender,         \* ServerStateInner.tx: the slot holds the oneshot sender
    delivered,      \* the clients sent into the oneshot channel
    wpc             \* where wait_response stands

archiveVars ==
    <<mailbox, store, pc, run, labelQueue, cursor, attQueue, hist, prevOutcome,
      storeAtStart>>

streamVars ==
    <<pages, spc, pageIdx, futures, sending, chan, rx, received, shist>>

tokenVars == <<now, tokens, persisted, lock, cpc, got, thist>>

httpVars == <<hpc, bearer, interval, wakeAt, response, outcome, hhist>>

insertVars == <<db, tx, guard, ipc, imsg, ilabel, stack, ires, seen, ihist>>

openVars == <<file, fileAtOpen, opc, stmt, opens, ohist>>

bootVars == <<tokensTable, bpc, oauthTokens, boots, bhist>>

serverVars == <<cbpc, cbreq, cancelled, sender, delivered, wpc>>

vars ==
    <<archiveVars, streamVars, tokenVars, httpVars, insertVars, openVars, bootVars,
      serverVars>>

nonArchiveVars ==
    <<streamVars, tokenVars, httpVars, insertVars, openVars, bootVars, serverVars>>
nonStreamVars ==
    <<archiveVars, tokenVars, httpVars, insertVars, openVars, bootVars, serverVars>>
nonTokenVars ==
    <<archiveVars, streamVars, httpVars, insertVars, openVars, bootVars, serverVars>>
nonInsertVars ==
    <<archiveVars, streamVars, tokenVars, httpVars, openVars, bootVars, serverVars>>
nonOpenVars ==
    <<archiveVars, streamVars, tokenVars, httpVars, insertVars, bootVars, serverVars>>
nonBootVars ==
    <<archiveVars, streamVars, tokenVars, httpVars, insertVars, openVars, serverVars>>
nonServerVars ==
    <<archiveVars, streamVars, tokenVars, httpVars, insertVars, openVars, bootVars>>

RunningPcs ==
    { "list_labels", "label_loop", "label_fetch", "profile", "msg_next",
      "msg_fetch", "att_loop", "att_fetch", "raw_check", "raw_fetch" }

FinishedPcs == { "idle", "exit_ok", "exit_err", "crashed" }

\* A remote call (list_labels, label, profile, the listing stream, full_message,
\* attachment, raw_message) answers or fails.
RemoteOutcomes == { "ok", "err" }

\* A store call runs its statement, or fails on the connection (an I/O error).
StoreCall(io, st, result) == IF io THEN Err("io", st) ELSE result

FreshHist ==
    [ inserts |-> 0, fetches |-> 0, errored |-> FALSE, afterErr |-> 0,
      pkViol |-> FALSE, remoteFailed |-> FALSE, ioFailed |-> FALSE,
      constraintFailed |-> FALSE,
      malformed |-> "none", fetchedHeld |-> FALSE, insertedHeld |-> FALSE,
      fetchedInline |-> FALSE, backfilled |-> {}, refetched |-> FALSE ]

\* The remote answered a fetch of this kind ("message", "attachment", "raw")
\* with a record whose date or base64 text is malformed.
CountMalformed(h, kind, bad) == IF bad THEN [h EXCEPT !.malformed = kind] ELSE h

\* A detail fetch was issued, and then an insert, for an entity the store
\* held (held) at that moment.
CountFetchHeld(h, held) == [h EXCEPT !.fetchedHeld = @ \/ held]
CountInsertHeld(h, held) == [h EXCEPT !.insertedHeld = @ \/ held]

\* An attachment of a message was fetched; inline tells whether a part of the
\* message carries that attachment id together with inline data.  It was
\* fetched again if the run had fetched it before.
CountAttachmentFetch(h, mid, aid, inline) ==
    [h EXCEPT !.fetchedInline = @ \/ inline,
              !.refetched = @ \/ <<mid, aid>> \in h.backfilled,
              !.backfilled = @ \cup {<<mid, aid>>}]

\* A detail fetch (label, full_message, attachment, raw_message) was issued.
CountFetch(h) ==
    [h EXCEPT !.fetches = @ + 1, !.afterErr = IF h.errored THEN @ + 1 ELSE @]

\* An insert statement was issued, with result res.
CountInsert(h, res) ==
    [h EXCEPT !.inserts = @ + 1, !.afterErr = IF h.errored THEN @ + 1 ELSE @,
              !.pkViol = @ \/ res.err = "pk"]

\* A call returned an error of this kind.
CountError(h, kind) ==
    [h EXCEPT !.errored = TRUE,
              !.remoteFailed = @ \/ kind = "remote",
              !.ioFailed = @ \/ kind = "io",
              !.constraintFailed = @ \/ kind \in {"pk", "fk"}]

\* Faulty variant: the error is logged and the loop goes on.
PropagateSwallowed(failed, next) == next

\* The ? operator: an Err returns from fetch_everything, an Ok goes on.
Propagate(failed, next) == IF failed THEN "exit_err" ELSE next

(***************************************************************************)
(* client.rs: the items of the stream and the FuturesOrdered of a page.    *)
(***************************************************************************)
OkItem(i) == [kind |-> "ok", id |-> i]
ErrItem == [kind |-> "err", id |-> 0]
NoItem == [kind |-> "none", id |-> 0]

\* No futures: items are the stubs not yet yielded, in submission order; ok and
\* err are the ones whose fetch has completed, by result.
NoFutures == [items |-> <<>>, ok |-> {}, err |-> {}]

FreshStreamHist ==
    [ pageFetches |-> 0, failed |-> FALSE, failedAt |-> 0,
      fetchesAfterDrop |-> 0, fetchesAfterFail |-> 0, overtaken |-> FALSE ]

\* The callers of access_token(): concurrent tasks sharing one GmailClient.
Callers == 1..NumCallers

NoResult == [kind |-> "none", token |-> 0]
FreshTokenHist ==
    [ refreshCalls |-> 0, refreshFailed |-> FALSE, persistFailed |-> FALSE,
      refreshedExpired |-> FALSE, asleepSince |-> 0, waitedOnSleeper |-> FALSE,
      atCall |-> [c \in Callers |-> [expired |-> FALSE, token |-> 0]] ]

\* No caller has asked for a token.
TokenIdle ==
    /\ now = 0
    /\ tokens = [access_token |-> 0, refresh_token |-> "rt", expires_at |-> 0]
    /\ persisted = tokens
    /\ lock = 0
    /\ cpc = [c \in Callers |-> "idle"]
    /\ got = [c \in Callers |-> NoResult]
    /\ thist = FreshTokenHist

NoResponse == [sent |-> FALSE, status |-> "none", body |-> "none"]
NoError == [kind |-> "none", status |-> "none", carries |-> "none", attempt |-> 0]
NoOutcome == [kind |-> "none", err |-> NoError]
FreshHttpHist ==
    [ attempts |-> 0, sentPastExpiry |-> FALSE, transportFailed |-> FALSE,
      sentAfterTransport |-> FALSE, only429 |-> TRUE, lastStatus |-> "none",
      sentAfterNon429 |-> FALSE, gaveUpWith |-> 0 ]

\* No request is being made.
HttpIdle ==
    /\ hpc = "idle"
    /\ bearer = [present |-> FALSE, expires_at |-> 0]
    /\ interval = 0
    /\ wakeAt = 0
    /\ response = NoResponse
    /\ outcome = NoOutcome
    /\ hhist = FreshHttpHist

NoInsertResult == [returned |-> FALSE, ok |-> FALSE, err |-> "none"]
NotSeen == [taken |-> FALSE, view |-> EmptyStore, running |-> FALSE]
FreshInsertHist ==
    [ statements |-> 0, before |-> EmptyStore, rolledBack |-> FALSE,
      readInTransaction |-> FALSE ]

\* A database file that holds nothing.
NoFile == [objects |-> {}, version |-> {}, rows |-> 0]

FreshOpenHist ==
    [ marker |-> "unread", statements |-> 0, result |-> "none", wrote |-> FALSE,
      creations |-> 0, interrupted |-> FALSE ]

\* No store is being opened.
OpenIdle ==
    /\ file = NoFile
    /\ fileAtOpen = NoFile
    /\ opc = "idle"
    /\ stmt = 0
    /\ opens = 0
    /\ ohist = FreshOpenHist

\* No credential set: load_tokens found no row, or no process is running.
NoTokens == [refresh_token |-> 0, access_token |-> 0]

FreshBootHist ==
    [ grants |-> 0, handshakes |-> 0, handshakeWithRow |-> FALSE,
      setWithRow |-> FALSE, updates |-> 0, overwroteOther |-> FALSE ]

\* The program has not been started.
BootIdle ==
    /\ tokensTable = {}
    /\ bpc = "idle"
    /\ oauthTokens = NoTokens
    /\ boots = 0
    /\ bhist = FreshBootHist

\* The callback requests the listener can receive.
Callbacks == 1..NumCallbacks

\* No request.
NoRequest == [state |-> "absent", code |-> FALSE, error |-> FALSE, sent |-> FALSE]

\* No authorization handshake is under way.
ServerIdle ==
    /\ cbpc = [k \in Callbacks |-> "idle"]
    /\ cbreq = [k \in Callbacks |-> NoRequest]
    /\ cancelled = FALSE
    /\ sender = FALSE
    /\ delivered = 0
    /\ wpc = "idle"

\* No insert_message call is under way.
InsertIdle ==
    /\ db = EmptyStore
    /\ tx = EmptyStore
    /\ guard = "none"
    /\ ipc = "idle"
    /\ imsg = FullMessage(0, <<>>, PlainPayload)
    /\ ilabel = 0
    /\ stack = <<>>
    /\ ires = NoInsertResult
    /\ seen = NotSeen
    /\ ihist = FreshInsertHist

\* No stream has been opened.
StreamIdle ==
    /\ pages = <<>>
    /\ spc = "none"
    /\ pageIdx = 0
    /\ futures = NoFutures
    /\ sending = NoItem
    /\ chan = <<>>
    /\ rx = "none"
    /\ received = <<>>
    /\ shist = FreshStreamHist

ArchiveInit ==
    /\ mailbox \in Mailboxes
    /\ store = EmptyStore
    /\ pc = "idle"
    /\ run = 0
    /\ labelQueue = <<>>
    /\ cursor = 0
    /\ attQueue = <<>>
    /\ hist = FreshHist
    /\ prevOutcome = "none"
    /\ storeAtStart = EmptyStore
    /\ StreamIdle
    /\ TokenIdle
    /\ HttpIdle
    /\ InsertIdle
    /\ OpenIdle
    /\ BootIdle
    /\ ServerIdle

\* main: the process is started (again) on the same database and mailbox.
StartRun ==
    /\ pc \in FinishedPcs
    /\ run < MaxRuns
    /\ run' = run + 1
    /\ prevOutcome' = IF pc = "idle" THEN "none" ELSE pc
    /\ pc' = "list_labels"
    /\ labelQueue' = <<>>
    /\ cursor' = 0
    /\ attQueue' = <<>>
    /\ hist' = FreshHist
    /\ storeAtStart' = store
    /\ UNCHANGED nonArchiveVars
    /\ UNCHANGED <<mailbox, store>>

\* The process dies between two steps.
Crash ==
    /\ pc \in RunningPcs
    /\ pc' = "crashed"
    /\ UNCHANGED nonArchiveVars
    /\ UNCHANGED <<mailbox, store, run, labelQueue, cursor, attQueue, hist,
                   prevOutcome, storeAtStart>>

\* fetch_labels: client.list_labels().await?
ListLabels ==
    /\ pc = "list_labels"
    /\ \E remote \in RemoteOutcomes :
        /\ pc' = Propagate(remote = "err", "label_loop")
        /\ labelQueue' = IF remote = "ok" THEN mailbox.labels ELSE labelQueue
        /\ hist' = IF remote = "err" THEN CountError(hist, "remote") ELSE hist
    /\ UNCHANGED nonArchiveVars
    /\ UNCHANGED <<mailbox, store, run, cursor, attQueue, prevOutcome, storeAtStart>>

\* fetch_labels: the head of the loop and store.contains_label(&label.id)?
LabelCheck ==
    /\ pc = "label_loop"
    /\ IF labelQueue = <<>>
       THEN /\ pc' = "profile"
            /\ UNCHANGED <<labelQueue, hist>>
       ELSE \E io \in BOOLEAN :
            LET found == contains_label(store, Head(labelQueue))
            IN /\ pc' = Propagate(io, IF found THEN "label_loop" ELSE "label_fetch")
               /\ labelQueue' = IF ~io /\ found THEN Tail(labelQueue) ELSE labelQueue
               /\ hist' = IF io THEN CountError(hist, "io") ELSE hist
    /\ UNCHANGED nonArchiveVars
    /\ UNCHANGED <<mailbox, store, run, cursor, attQueue, prevOutcome, storeAtStart>>

\* fetch_labels: client.label(&label.id).await? and store.insert_label(&label)?
LabelFetchInsert ==
    /\ pc = "label_fetch"
    /\ \E remote \in RemoteOutcomes, io \in BOOLEAN :
        LET label == [id |-> Head(labelQueue)]
            res == StoreCall(io, store, insert_label(store, label))
            held == \E r \in store.labels : r.id = label.id
            h1 == CountFetchHeld(CountFetch(hist), held)
            h2 == CountInsertHeld(CountInsert(h1, res), held)
        IN IF remote = "err"
           THEN /\ pc' = Propagate(TRUE, "label_loop")
                /\ hist' = CountError(h1, "remote")
                /\ UNCHANGED <<store, labelQueue>>
           ELSE /\ pc' = Propagate(~res.ok, "label_loop")
                /\ store' = res.store
                /\ labelQueue' = IF res.ok THEN Tail(labelQueue) ELSE labelQueue
                /\ hist' = IF res.ok THEN h2 ELSE CountError(h2, res.err)
    /\ UNCHANGED nonArchiveVars
    /\ UNCHANGED <<mailbox, run, cursor, attQueue, prevOutcome, storeAtStart>>

\* fetch_messages: client.profile().await?, store.message_count()? and
\* client.list_messages()
Profile ==
    /\ pc = "profile"
    /\ \E remote \in RemoteOutcomes, io \in BOOLEAN :
        LET failed == remote = "err" \/ io
        IN /\ pc' = Propagate(failed, "msg_next")
           /\ hist' = IF remote = "err" THEN CountError(hist, "remote")
                      ELSE IF io THEN CountError(hist, "io") ELSE hist
    /\ cursor' = 0
    /\ UNCHANGED nonArchiveVars
    /\ UNCHANGED <<mailbox, store, run, labelQueue, attQueue, prevOutcome, storeAtStart>>

\* fetch_messages: messages.next().await.transpose()?, then
\* store.contains_message(&message.id)? and, for a stored message,
\* store.attachment_ids(&message.id)?
MsgNext ==
    /\ pc = "msg_next"
    /\ \E remote \in RemoteOutcomes, io \in BOOLEAN :
        IF remote = "err"
        THEN /\ pc' = Propagate(TRUE, "msg_next")
             /\ hist' = CountError(hist, "remote")
             /\ UNCHANGED <<cursor, attQueue>>
        ELSE IF ListedStub(mailbox, cursor) = 0
        THEN /\ pc' = "exit_ok"
             /\ UNCHANGED <<cursor, attQueue, hist>>
        ELSE LET id == ListedStub(mailbox, cursor)
                 found == contains_message(store, id)
             IN /\ cursor' = id
                /\ pc' = Propagate(io, IF found THEN "att_loop" ELSE "msg_fetch")
                /\ hist' = IF io THEN CountError(hist, "io") ELSE hist
                /\ IF ~io /\ found
                   THEN attQueue' \in attachment_ids(store, id)
                   ELSE attQueue' = <<>>
    /\ UNCHANGED nonArchiveVars
    /\ UNCHANGED <<mailbox, store, run, labelQueue, prevOutcome, storeAtStart>>

\* fetch_messages: client.full_message(&message.id).await?,
\* store.insert_message(&message)? and extract_attachment_ids(&message)
MsgFetchInsert ==
    /\ pc = "msg_fetch"
    /\ \E remote \in RemoteOutcomes, wire \in Wires, io \in BOOLEAN :
        LET message == RemoteMessage(mailbox, cursor)
            res == StoreCall(io, store, insert_message(store, message))
            held == \E r \in store.messages : r.id = message.id
            h1 == CountFetchHeld(CountFetch(hist), held)
            hm == CountMalformed(h1, "message",
                      MalformedDate(wire.internal_date) \/ MalformedBase64(wire.data))
            h2 == CountInsertHeld(CountInsert(hm, res), held)
        IN IF remote = "err"
           THEN /\ pc' = Propagate(TRUE, "att_loop")
                /\ hist' = CountError(h1, "remote")
                /\ UNCHANGED <<store, attQueue>>
           ELSE IF ~DecodesFullMessage(wire)
           THEN /\ pc' = Propagate(TRUE, "att_loop")
                /\ hist' = CountError(hm, "remote")
                /\ UNCHANGED <<store, attQueue>>
           ELSE /\ pc' = Propagate(~res.ok, "att_loop")
                /\ store' = res.store
                /\ attQueue' = IF res.ok THEN extract_attachment_ids(message)
                               ELSE attQueue
                /\ hist' = IF res.ok THEN h2 ELSE CountError(h2, res.err)
    /\ UNCHANGED nonArchiveVars
    /\ UNCHANGED <<mailbox, run, labelQueue, cursor, prevOutcome, storeAtStart>>

\* The attachment loops and fetch_attachment:
\* store.contains_message_attachment(message_id, attachment_id)?
AttCheck ==
    /\ pc = "att_loop"
    /\ IF attQueue = <<>>
       THEN /\ pc' = "raw_check"
            /\ UNCHANGED <<attQueue, hist>>
       ELSE \E io \in BOOLEAN :
            LET found == contains_message_attachment(store, cursor, Head(attQueue))
            IN /\ pc' = Propagate(io, IF found THEN "att_loop" ELSE "att_fetch")
               /\ attQueue' = IF ~io /\ found THEN Tail(attQueue) ELSE attQueue
               /\ hist' = IF io THEN CountError(hist, "io") ELSE hist
    /\ UNCHANGED nonArchiveVars
    /\ UNCHANGED <<mailbox, store, run, labelQueue, cursor, prevOutcome, storeAtStart>>

\* fetch_attachment: client.attachment(message_id, attachment_id).await? and
\* store.insert_attachment(message_id, attachment_id, &attachment)?
AttFetchInsert ==
    /\ pc = "att_fetch"
    /\ \E remote \in RemoteOutcomes, wire \in Wires, io \in BOOLEAN :
        LET aid == Head(attQueue)
            res == StoreCall(io, store, insert_attachment(store, cursor, aid))
            held == \E r \in store.message_attachments :
                        r.message_id = cursor /\ r.attachment_id = aid
            inline == \E p \in AllParts(RemoteMessage(mailbox, cursor).payload) :
                          p.body.attachment_id = aid /\ p.body.data # Null
            h1 == CountAttachmentFetch(CountFetchHeld(CountFetch(hist), held),
                                       cursor, aid, inline)
            hm == CountMalformed(h1, "attachment", MalformedBase64(wire.data))
            h2 == CountInsertHeld(CountInsert(hm, res), held)
        IN IF remote = "err"
           THEN /\ pc' = Propagate(TRUE, "att_loop")
                /\ hist' = CountError(h1, "remote")
                /\ UNCHANGED <<store, attQueue>>
           ELSE IF ~DecodesAttachment(wire)
           THEN /\ pc' = Propagate(TRUE, "att_loop")
                /\ hist' = CountError(hm, "remote")
                /\ UNCHANGED <<store, attQueue>>
           ELSE /\ pc' = Propagate(~res.ok, "att_loop")
                /\ store' = res.store
                /\ attQueue' = IF res.ok THEN Tail(attQueue) ELSE attQueue
                /\ hist' = IF res.ok THEN h2 ELSE CountError(h2, res.err)
    /\ UNCHANGED nonArchiveVars
    /\ UNCHANGED <<mailbox, run, labelQueue, cursor, prevOutcome, storeAtStart>>

\* fetch_messages: store.contains_raw_message(&message.id)?
RawCheck ==
    /\ pc = "raw_check"
    /\ \E io \in BOOLEAN :
        LET found == contains_raw_message(store, cursor)
        IN /\ pc' = Propagate(io, IF found THEN "msg_next" ELSE "raw_fetch")
           /\ hist' = IF io THEN CountError(hist, "io") ELSE hist
    /\ UNCHANGED nonArchiveVars
    /\ UNCHANGED <<mailbox, store, run, labelQueue, cursor, attQueue, prevOutcome,
                   storeAtStart>>

\* fetch_messages: client.raw_message(&message.id).await? and
\* store.insert_raw_message(&message.id, &raw_message.raw)?
RawFetchInsert ==
    /\ pc = "raw_fetch"
    /\ \E remote \in RemoteOutcomes, wire \in Wires, io \in BOOLEAN :
        LET res == StoreCall(io, store, insert_raw_message(store, cursor))
            held == \E r \in store.raw_messages : r.message_id = cursor
            h1 == CountFetchHeld(CountFetch(hist), held)
            hm == CountMalformed(h1, "raw",
                      MalformedDate(wire.internal_date) \/ MalformedBase64(wire.data))
            h2 == CountInsertHeld(CountInsert(hm, res), held)
        IN IF remote = "err"
           THEN /\ pc' = Propagate(TRUE, "msg_next")
                /\ hist' = CountError(h1, "remote")
                /\ UNCHANGED store
           ELSE IF ~DecodesRawMessage(wire)
           THEN /\ pc' = Propagate(TRUE, "msg_next")
                /\ hist' = CountError(hm, "remote")
                /\ UNCHANGED store
           ELSE /\ pc' = Propagate(~res.ok, "msg_next")
                /\ store' = res.store
                /\ hist' = IF res.ok THEN h2 ELSE CountError(h2, res.err)
    /\ UNCHANGED nonArchiveVars
    /\ UNCHANGED <<mailbox, run, labelQueue, cursor, attQueue, prevOutcome,
                   storeAtStart>>

ArchiveNext ==
    \/ StartRun
    \/ Crash
    \/ ListLabels
    \/ LabelCheck
    \/ LabelFetchInsert
    \/ Profile
    \/ MsgNext
    \/ MsgFetchInsert
    \/ AttCheck
    \/ AttFetchInsert
    \/ RawCheck
    \/ RawFetchInsert

SpecArchive == ArchiveInit /\ [][ArchiveNext]_vars

(***************************************************************************)
(* client.rs: GmailClient::messages, the paginated stream of full          *)
(* messages.  The remote listing is a sequence of pages; the stubs are     *)
(* numbered 1..N in listing order (page order, then in-page order).  Every *)
(* page but the last carries a next_page_token.                            *)
(***************************************************************************)
LongPages == (ChannelCapacity + 3) \div MaxPageSize + 1

\* A listing with more stubs than the channel holds.
LongListing == [p \in 1..LongPages |-> MaxPageSize]

\* A listing with more stubs than the channel holds and two empty pages
\* before its last stubs.
GappedListing ==
    [p \in 1..(LongPages + 3) |->
        IF p \in {LongPages, LongPages + 1} THEN 0 ELSE MaxPageSize]

Listings ==
    UNION { [1..n -> 0..MaxPageSize] : n \in 1..MaxPages }
        \cup { LongListing, GappedListing }

\* The number of stubs on the first q pages.
RECURSIVE ItemsThrough(_, _)
ItemsThrough(pgs, q) == IF q = 0 THEN 0 ELSE ItemsThrough(pgs, q - 1) + pgs[q]

TotalItems(pgs) == ItemsThrough(pgs, Len(pgs))

\* page.messages of page q: the stubs, in order.
PageItems(pgs, q) == [j \in 1..pgs[q] |-> ItemsThrough(pgs, q - 1) + j]

\* The number of pages that must be fetched to list the first k stubs (all of
\* them when the listing has fewer).
PagesNeeded(pgs, k) ==
    IF k > TotalItems(pgs) THEN Len(pgs)
    ELSE CHOOSE q \in 0..Len(pgs) :
             /\ ItemsThrough(pgs, q) >= k
             /\ \A r \in 0..(q - 1) : ItemsThrough(pgs, r) < k

\* Faulty variant: the loop stops one page early.
HasNextPageButLast(pgs, q) == q + 1 < Len(pgs)

\* while let Some(token) = page.next_page_token
HasNextPage(pgs, q) == q < Len(pgs)

\* The secondary fetches that have been started and have not completed.
InFlight(fo) == Range(fo.items) \ (fo.ok \cup fo.err)

\* Faulty variant: results are yielded as they complete (a FuturesUnordered).
YieldableUnordered(fo) == Range(fo.items) \cap (fo.ok \cup fo.err)

\* FuturesOrdered::next: the results it may yield now: the oldest submitted
\* future's, once it has completed.
Yieldable(fo) ==
    IF fo.items = <<>> THEN {} ELSE {Head(fo.items)} \cap (fo.ok \cup fo.err)

\* The queue without item i.
Without(items, i) ==
    LET keep == {j \in 1..Len(items) : items[j] # i}
        idx(k) == CHOOSE j \in keep : Cardinality({x \in keep : x < j}) = k - 1
    IN [k \in 1..Cardinality(keep) |-> items[idx(k)]]

\* Faulty variant: an unbounded channel.
HasRoomAlways(ch) == TRUE

\* mpsc::channel(32): a send completes while the channel has room.
HasRoom(ch) == Len(ch) < ChannelCapacity

StreamInit ==
    /\ pages \in Listings
    /\ spc = "fetch_page"
    /\ pageIdx = 0
    /\ futures = NoFutures
    /\ sending = NoItem
    /\ chan = <<>>
    /\ rx = "open"
    /\ received = <<>>
    /\ shist = FreshStreamHist
    /\ mailbox = [labels |-> <<>>, messages |-> <<>>]
    /\ store = EmptyStore
    /\ pc = "idle"
    /\ run = 0
    /\ labelQueue = <<>>
    /\ cursor = 0
    /\ attQueue = <<>>
    /\ hist = FreshHist
    /\ prevOutcome = "none"
    /\ storeAtStart = EmptyStore
    /\ TokenIdle
    /\ HttpIdle
    /\ InsertIdle
    /\ OpenIdle
    /\ BootIdle
    /\ ServerIdle

\* A page fetch was issued.
CountPageFetch(h) ==
    [h EXCEPT !.pageFetches = @ + 1,
              !.fetchesAfterDrop = IF rx = "dropped" THEN @ + 1 ELSE @,
              !.fetchesAfterFail = IF h.failed THEN @ + 1 ELSE @]

\* A fetch failed; at is the place in the listing of what it was to deliver.
CountFailure(h, at) ==
    [h EXCEPT !.failed = TRUE,
              !.failedAt = IF h.failed /\ h.failedAt <= at THEN @ ELSE at]

\* The fetch of stub i completed; it overtook the oldest one if that is still
\* in flight.
CountCompletion(h, i) ==
    [h EXCEPT !.overtaken = @ \/ (i # Head(futures.items)
                                    /\ Head(futures.items) \in InFlight(futures))]

\* fetch_page(page_token).await? and the collect() of fetch_full_msgs: the
\* page arrives and every stub's this.message(&msg.id) enters the FuturesOrdered.
FetchPage ==
    /\ spc = "fetch_page"
    /\ \E remote \in RemoteOutcomes :
        IF remote = "err"
        THEN /\ spc' = "send_err"
             /\ sending' = ErrItem
             /\ shist' = CountFailure(CountPageFetch(shist),
                                      ItemsThrough(pages, pageIdx) + 1)
             /\ UNCHANGED <<pageIdx, futures>>
        ELSE /\ spc' = "hydrate"
             /\ pageIdx' = pageIdx + 1
             /\ futures' = [items |-> PageItems(pages, pageIdx + 1),
                            ok |-> {}, err |-> {}]
             /\ shist' = CountPageFetch(shist)
             /\ UNCHANGED sending
    /\ UNCHANGED <<pages, chan, rx, received>>
    /\ UNCHANGED nonStreamVars

\* futures.next().await polls the in-flight fetches: one of them completes.
CompleteFetch ==
    /\ spc = "hydrate"
    /\ \E i \in InFlight(futures), remote \in RemoteOutcomes :
        /\ futures' = IF remote = "ok"
                      THEN [futures EXCEPT !.ok = @ \cup {i}]
                      ELSE [futures EXCEPT !.err = @ \cup {i}]
        /\ shist' = CountCompletion(
                        IF remote = "err" THEN CountFailure(shist, i) ELSE shist, i)
    /\ UNCHANGED <<pages, spc, pageIdx, sending, chan, rx, received>>
    /\ UNCHANGED nonStreamVars

\* while let Some(msg) = futures.next().await.transpose()?: a result is
\* yielded; an Ok goes to tx.send, an Err returns from the closure.
FuturesNext ==
    /\ spc = "hydrate"
    /\ \E i \in Yieldable(futures) :
        IF i \in futures.ok
        THEN /\ spc' = "send"
             /\ sending' = OkItem(i)
             /\ futures' = [futures EXCEPT !.items = Without(@, i)]
        ELSE /\ spc' = "send_err"
             /\ sending' = ErrItem
             /\ futures' = NoFutures
    /\ UNCHANGED <<pages, pageIdx, chan, rx, received, shist>>
    /\ UNCHANGED nonStreamVars

\* futures.next() yields None: Ok(ControlFlow::Continue(())), then the page
\* loop: the next page if the page carried a token, else Ok(()).
PageDone ==
    /\ spc = "hydrate"
    /\ futures.items = <<>>
    /\ spc' = IF HasNextPage(pages, pageIdx) THEN "fetch_page" ELSE "done"
    /\ futures' = NoFutures
    /\ UNCHANGED <<pages, pageIdx, sending, chan, rx, received, shist>>
    /\ UNCHANGED nonStreamVars

\* tx.send(Ok(msg)).await: an Err (the receiver is gone) breaks and returns
\* Ok(()); otherwise the item is queued once the channel has room.
Send ==
    /\ spc = "send"
    /\ IF rx = "dropped"
       THEN /\ spc' = "done"
            /\ futures' = NoFutures
            /\ UNCHANGED chan
       ELSE /\ HasRoom(chan)
            /\ chan' = Append(chan, sending)
            /\ spc' = "hydrate"
            /\ UNCHANGED futures
    /\ sending' = NoItem
    /\ UNCHANGED <<pages, pageIdx, rx, received, shist>>
    /\ UNCHANGED nonStreamVars

\* Faulty variant: the error of the closure is dropped.
ForwardErrDropped(ch, err) == ch

\* result_wrapper: if let Err(err) = maker(..).await { tx.send(Err(err)) }
ForwardErr(ch, err) == Append(ch, err)

\* result_wrapper: let _ = tx.send(Err(err)).await, and the task ends.
SendErr ==
    /\ spc = "send_err"
    /\ IF rx = "dropped"
       THEN UNCHANGED chan
       ELSE /\ HasRoom(chan)
            /\ chan' = ForwardErr(chan, sending)
    /\ spc' = "done"
    /\ sending' = NoItem
    /\ UNCHANGED <<pages, pageIdx, futures, rx, received, shist>>
    /\ UNCHANGED nonStreamVars

\* The consumer polls the ReceiverStream and takes the next item.
Recv ==
    /\ rx = "open"
    /\ chan # <<>>
    /\ received' = Append(received, Head(chan))
    /\ chan' = Tail(chan)
    /\ UNCHANGED <<pages, spc, pageIdx, futures, sending, rx, shist>>
    /\ UNCHANGED nonStreamVars

\* The consumer polls, the channel is empty and every sender is gone: None.
RecvEnd ==
    /\ rx = "open"
    /\ chan = <<>>
    /\ spc = "done"
    /\ rx' = "ended"
    /\ UNCHANGED <<pages, spc, pageIdx, futures, sending, chan, received, shist>>
    /\ UNCHANGED nonStreamVars

\* The consumer drops the stream: the channel closes and what it held is gone.
DropStream ==
    /\ rx = "open"
    /\ rx' = "dropped"
    /\ chan' = <<>>
    /\ UNCHANGED <<pages, spc, pageIdx, futures, sending, received, shist>>
    /\ UNCHANGED nonStreamVars

ProducerNext ==
    \/ FetchPage
    \/ CompleteFetch
    \/ FuturesNext
    \/ PageDone
    \/ Send
    \/ SendErr

StreamNext ==
    \/ ProducerNext
    \/ Recv
    \/ RecvEnd
    \/ DropStream

SpecStream == StreamInit /\ [][StreamNext]_vars

\* The scheduler runs the spawned task whenever it can step, every fetch is
\* answered, and a consumer that has not dropped the stream keeps polling it.
FairSpecStream ==
    /\ SpecStream
    /\ WF_vars(ProducerNext)
    /\ WF_vars(Recv)
    /\ WF_vars(RecvEnd)

-----------------------------------------------------------------------------
\* What the remote mailbox holds, as the store would mirror it.

RECURSIVE PartCount(_)
RECURSIVE PartCountSeq(_, _)
PartCountSeq(parts, i) ==
    IF i > Len(parts) THEN 0
    ELSE PartCount(parts[i]) + PartCountSeq(parts, i + 1)
PartCount(part) == 1 + PartCountSeq(part.parts, 1)

\* The attachment ids referenced by any part of a payload.
ReferencedAttachments(payload) ==
    {p.body.attachment_id :
        p \in {q \in AllParts(payload) : q.body.attachment_id # Null}}

\* The schema accepts every listed message: its label ids are listed and
\* distinct (message_labels PK and FK) and its part ids are distinct
\* (message_parts PK).
Storable(mb) ==
    \A i \in 1..Len(mb.messages) :
        LET m == mb.messages[i]
        IN /\ Range(m.label_ids) \subseteq Range(mb.labels)
           /\ Cardinality(Range(m.label_ids)) = Len(m.label_ids)
           /\ Cardinality({p.part_id : p \in AllParts(m.payload)})
                 = PartCount(m.payload)

\* The rows of a complete mirror of the mailbox.
FullMirror(mb) ==
    LET ids == 1..Len(mb.messages)
        parts(i) == AllParts(mb.messages[i].payload)
    IN [ labels |-> {[id |-> l] : l \in Range(mb.labels)},
         messages |-> {[id |-> i] : i \in ids},
         message_labels |->
            UNION {{[message_id |-> i, label_id |-> l] :
                        l \in Range(mb.messages[i].label_ids)} : i \in ids},
         message_parts |->
            UNION {{[message_id |-> i, part_id |-> p.part_id,
                     children |-> ChildIds(p)] : p \in parts(i)} : i \in ids},
         message_part_body |->
            UNION {{[message_id |-> i, part_id |-> p.part_id,
                     attachment_id |-> p.body.attachment_id,
                     data |-> p.body.data] : p \in parts(i)} : i \in ids},
         message_attachments |->
            UNION {{[message_id |-> i, attachment_id |-> a] :
                        a \in ReferencedAttachments(mb.messages[i].payload)}
                   : i \in ids},
         raw_messages |-> {[message_id |-> i] : i \in ids} ]

Resumed == prevOutcome \in {"exit_err", "crashed"}
Finished == pc \in {"exit_ok", "exit_err"}

-----------------------------------------------------------------------------
\* Properties of the archive run (SpecArchive).

\* C1: Idempotent resume. In a run that follows a completed run against the
\* unchanged mailbox, no insert_label, insert_message, insert_attachment or
\* insert_raw_message is performed, and the store stays what it was when the
\* run started.
C1_IdempotentResume ==
    prevOutcome = "exit_ok" => (hist.inserts = 0 /\ store = storeAtStart)

\* A second run has gone to completion over a mailbox of two messages with
\* labels and attachments, after a first run that completed.
C1_SecondRunCompleted ==
    /\ prevOutcome = "exit_ok"
    /\ pc = "exit_ok"
    /\ cursor = Len(mailbox.messages)
    /\ Len(mailbox.messages) >= 2
    /\ store.labels # {}
    /\ store.message_attachments # {}

\* C2: Mirror completeness. When a run terminates successfully the store has
\* a label row for every listed label and, for every listed message, the
\* message row, a raw_messages row and a message_attachments row for every
\* attachment id referenced by any part of the message.
C2_MirrorCompleteness ==
    pc = "exit_ok" =>
        /\ \A l \in Range(mailbox.labels) : contains_label(store, l)
        /\ \A i \in 1..Len(mailbox.messages) :
             /\ contains_message(store, i)
             /\ contains_raw_message(store, i)
             /\ \A a \in ReferencedAttachments(mailbox.messages[i].payload) :
                    contains_message_attachment(store, i, a)

\* A first run has completed over two labels and two messages, one of them
\* with attachments in nested parts.
C2_FirstRunCompleted ==
    /\ pc = "exit_ok"
    /\ run = 1
    /\ Len(mailbox.labels) = 2
    /\ Len(mailbox.messages) = 2
    /\ \E i \in 1..2 : mailbox.messages[i].payload = NestedPayload

C4_AbortOnFirstError ==
    /\ hist.errored => pc = "exit_err"
    /\ hist.afterErr = 0

\* A run has exited with an error in the middle of the message listing,
\* after it had inserted rows and with messages left unprocessed.
C4_AbortedMidListing ==
    /\ hist.errored
    /\ pc = "exit_err"
    /\ hist.inserts > 0
    /\ cursor >= 1
    /\ cursor < Len(mailbox.messages)

-----------------------------------------------------------------------------
\* Properties of the message stream (SpecStream, FairSpecStream).

OkIds(rcv) == {rcv[i].id : i \in {j \in 1..Len(rcv) : rcv[j].kind = "ok"}}
OkCount(rcv) == Cardinality({j \in 1..Len(rcv) : rcv[j].kind = "ok"})
ErrPositions(rcv) == {j \in 1..Len(rcv) : rcv[j].kind = "err"}
AllItems(pgs) == [i \in 1..TotalItems(pgs) |-> OkItem(i)]

\* C5: Pagination completeness. When no fetch fails and the consumer polls
\* to the end of the stream, it has received exactly the N listed items as
\* Ok items, each once, in listing order; and the stream always comes to its
\* end (or is dropped by the consumer).
C5_PaginationCompleteness ==
    /\ []((rx = "ended" /\ ~ shist.failed) => received = AllItems(pages))
    /\ <>(rx \in {"ended", "dropped"})

\* The consumer has reached the end of a listing of three or more items over
\* two or more pages, one of them empty, with no failure.
C5_ListingDrained ==
    /\ rx = "ended"
    /\ ~ shist.failed
    /\ Len(pages) >= 2
    /\ TotalItems(pages) >= 3
    /\ \E q \in 1..Len(pages) : pages[q] = 0
    /\ Len(received) = TotalItems(pages)

\* C6 as stated: when the consumer has dropped the stream after K < N
\* items, the pages fetched are no more than the pages needed to produce the
\* first K items. It fails because the task runs ahead of the consumer.
C6_CancellationPageBound ==
    (rx = "dropped" /\ OkCount(received) >= 1
        /\ OkCount(received) < TotalItems(pages))
        => shist.pageFetches <= PagesNeeded(pages, OkCount(received))

\* C6: Cancellation page bound with the channel counted. The pages fetched
\* are never more than the pages needed to produce the items received, the
\* ChannelCapacity items the channel buffers and the one item whose send is
\* pending; and once the consumer has dropped the stream the task
\* terminates.
C6_CancellationBufferedBound ==
    /\ [](shist.pageFetches
            <= PagesNeeded(pages, OkCount(received) + ChannelCapacity + 1))
    /\ (rx = "dropped" ~> spc = "done")

\* The consumer dropped the stream after one item, the task has terminated
\* without a failure, having fetched exactly the pages of the first
\* 1 + ChannelCapacity + 1 items and not all the pages.
C6_DroppedAfterOneItem ==
    /\ rx = "dropped"
    /\ spc = "done"
    /\ ~ shist.failed
    /\ OkCount(received) = 1
    /\ shist.pageFetches
          = PagesNeeded(pages, OkCount(received) + ChannelCapacity + 1)
    /\ shist.pageFetches < Len(pages)

\* C7 as stated: once the consumer has dropped the stream the task halts
\* without fetching the remaining pages, whatever the listing: at most the
\* one page whose fetch was due when the stream was dropped is still fetched.
C7_CancellationHalts == shist.fetchesAfterDrop <= 1

\* C8: Terminal error item. An Err item is the last item the consumer
\* receives and there is at most one; when it has been received nothing
\* is left in the channel, the task is done, and every Ok item received is
\* listed before the failing item; no page is fetched after a failure; and a
\* stream that ends after a failure has delivered the Err item.
C8_TerminalErrItem ==
    /\ ErrPositions(received) \subseteq {Len(received)}
    /\ ErrPositions(received) # {}
        => /\ chan = <<>>
           /\ spc = "done"
           /\ \A i \in OkIds(received) : i < shist.failedAt
    /\ shist.fetchesAfterFail = 0
    /\ (rx = "ended" /\ shist.failed) => ErrPositions(received) # {}

\* The stream has ended on the Err item of a failed full-record fetch, after
\* an Ok item, with pages left unfetched.
C8_EndedOnErr ==
    /\ rx = "ended"
    /\ shist.failed
    /\ Len(received) >= 2
    /\ received[1].kind = "ok"
    /\ received[Len(received)].kind = "err"
    /\ pageIdx >= 1
    /\ pageIdx < Len(pages)

\* C9: Order-preserving hydration. The k-th item the consumer receives, when
\* Ok, is the k-th item of the listing, whatever the order in which the
\* concurrent full-record fetches complete.
C9_OrderPreservingHydration ==
    \A i \in 1..Len(received) :
        received[i].kind = "ok" => received[i].id = i

\* The stream was drained after a later full-record fetch had completed
\* before an earlier one.
C9_DrainedAfterOvertaking ==
    /\ rx = "ended"
    /\ ~ shist.failed
    /\ shist.overtaken
    /\ Len(received) >= 2

\* C10 as stated: the full-record fetches in flight are at most a window
\* width W that does not depend on the page size, i.e. some W narrower
\* than the largest listed page bounds them in every state.
C10_BoundedHydrationWindow ==
    \E W \in 1..(MaxPageSize - 1) : Cardinality(InFlight(futures)) <= W

-----------------------------------------------------------------------------
(***************************************************************************)
(* client.rs: GmailClient::access_token, and oauth/client.rs:              *)
(* OAuthClient::check_access_token.  NumCallers tasks share one            *)
(* GmailClient and each asks for the bearer token once; the clock advances *)
(* between any two steps.                                                  *)
(***************************************************************************)

\* The archive run has not started.
ArchiveIdle ==
    /\ mailbox = [labels |-> <<>>, messages |-> <<>>]
    /\ store = EmptyStore
    /\ pc = "idle"
    /\ run = 0
    /\ labelQueue = <<>>
    /\ cursor = 0
    /\ attQueue = <<>>
    /\ hist = FreshHist
    /\ prevOutcome = "none"
    /\ storeAtStart = EmptyStore

\* Faulty variant: the lock is granted while another caller holds it.
LockFreeAlways(l) == TRUE

\* self.inner.token_manager.lock().await returns when no caller holds the guard.
LockFree(l) == l = 0

\* Faulty variant: a token is taken to be valid up to and including its expiry.
StillValidInclusive(tok, t) == tok.expires_at >= t

\* if self.tokens.expires_at > Utc::now()
StillValid(tok, t) == tok.expires_at > t

\* What the refresh endpoint answers: a failure, or {access_token, expires_in}.
RefreshResponses(tok) ==
    { [ok |-> FALSE, access_token |-> 0, expires_in |-> 0] }
        \cup { [ok |-> TRUE, access_token |-> tok.access_token + 1, expires_in |-> e]
                 : e \in 0..MaxExpiresIn }

\* Faulty variant: the answer of the refresh endpoint is dropped.
ApplyRefreshDropped(tok, resp, t) == tok

\* Faulty variant: the cached credentials are overwritten whatever the answer.
ApplyRefreshAlways(tok, resp, t) ==
    [tok EXCEPT !.access_token = resp.access_token,
                !.expires_at = t + resp.expires_in]

\* check_access_token after the refresh call: the ? operator returns on a
\* failure before the cached credentials are touched; on an answer the new
\* expiry is Utc::now() + expires_in and the cached token is replaced.
ApplyRefresh(tok, resp, t) ==
    IF resp.ok
    THEN [tok EXCEPT !.access_token = resp.access_token,
                     !.expires_at = t + resp.expires_in]
    ELSE tok

\* Ok(Some(AccessTokenUpdate { access_token, expires_at }))
AccessTokenUpdate(tok) ==
    [access_token |-> tok.access_token, expires_at |-> tok.expires_at]

\* Store::update_access_token: UPDATE tokens SET access_token = ?, expires_at = ?
update_access_token(row, update) ==
    [row EXCEPT !.access_token = update.access_token,
                !.expires_at = update.expires_at]

TokenInit ==
    /\ now = 0
    /\ tokens \in { [access_token |-> 0, refresh_token |-> "rt", expires_at |-> e]
                      : e \in 0..MaxExpiresIn }
    /\ persisted = tokens
    /\ lock = 0
    /\ cpc = [c \in Callers |-> "idle"]
    /\ got = [c \in Callers |-> NoResult]
    /\ thist = FreshTokenHist
    /\ ArchiveIdle
    /\ StreamIdle
    /\ HttpIdle
    /\ InsertIdle
    /\ OpenIdle
    /\ BootIdle
    /\ ServerIdle

\* A task calls access_token() and waits for the lock.
Call(c) ==
    /\ cpc[c] = "idle"
    /\ cpc' = [cpc EXCEPT ![c] = "lock"]
    /\ thist' = [thist EXCEPT !.atCall[c] =
                    [expired |-> tokens.expires_at <= now,
                     token |-> tokens.access_token]]
    /\ UNCHANGED <<now, tokens, persisted, lock, got>>
    /\ UNCHANGED nonTokenVars

\* let mut guard = self.inner.token_manager.lock().await
Acquire(c) ==
    /\ cpc[c] = "lock"
    /\ LockFree(lock)
    /\ lock' = c
    /\ cpc' = [cpc EXCEPT ![c] = "check"]
    /\ UNCHANGED <<now, tokens, persisted, got, thist>>
    /\ UNCHANGED nonTokenVars

\* check_access_token: the expiry check; a valid token returns Ok(None), an
\* expired one sends the refresh call.
CheckAccessToken(c) ==
    /\ cpc[c] = "check"
    /\ IF StillValid(tokens, now)
       THEN /\ cpc' = [cpc EXCEPT ![c] = "read"]
            /\ UNCHANGED thist
       ELSE /\ cpc' = [cpc EXCEPT ![c] = "refresh"]
            /\ thist' = [thist EXCEPT
                            !.refreshCalls = @ + 1,
                            !.refreshedExpired = @ \/ tokens.access_token > 0]
    /\ UNCHANGED <<now, tokens, persisted, lock, got>>
    /\ UNCHANGED nonTokenVars

\* check_access_token: the refresh call is answered.  A failure returns
\* through ? from check_access_token, update_access_token and access_token
\* (the guard is dropped); an answer replaces the cached token.
RefreshResponse(c) ==
    /\ cpc[c] = "refresh"
    /\ \E resp \in RefreshResponses(tokens) :
        /\ tokens' = ApplyRefresh(tokens, resp, now)
        /\ IF resp.ok
           THEN /\ cpc' = [cpc EXCEPT ![c] = "persist"]
                /\ UNCHANGED <<lock, got, thist>>
           ELSE /\ cpc' = [cpc EXCEPT ![c] = "failed"]
                /\ got' = [got EXCEPT ![c] = [kind |-> "err", token |-> 0]]
                /\ lock' = IF lock = c THEN 0 ELSE lock
                /\ thist' = [thist EXCEPT !.refreshFailed = TRUE]
    /\ UNCHANGED <<now, persisted>>
    /\ UNCHANGED nonTokenVars

\* check_access_token: the refresh call is answered 429.  It is sent through
\* make_request, whose retry loop sleeps before the next attempt; the caller
\* is still inside update_access_token and holds the guard.
RefreshRateLimited(c) ==
    /\ cpc[c] = "refresh"
    /\ now < MaxTime
    /\ cpc' = [cpc EXCEPT ![c] = "backoff"]
    /\ thist' = [thist EXCEPT !.asleepSince = now]
    /\ UNCHANGED <<now, tokens, persisted, lock, got>>
    /\ UNCHANGED nonTokenVars

\* The sleep of the retry loop ends and the refresh call is sent again.
RefreshWake(c) ==
    /\ cpc[c] = "backoff"
    /\ now > thist.asleepSince
    /\ cpc' = [cpc EXCEPT ![c] = "refresh"]
    /\ UNCHANGED <<now, tokens, persisted, lock, got, thist>>
    /\ UNCHANGED nonTokenVars

\* TokenManager::update_access_token: the update returned by
\* check_access_token is written to the tokens table; a store error returns
\* through ?.
Persist(c) ==
    /\ cpc[c] = "persist"
    /\ \E io \in BOOLEAN :
        LET res == StoreCall(io, persisted,
                       Ok(update_access_token(persisted, AccessTokenUpdate(tokens))))
        IN /\ persisted' = res.store
           /\ IF res.ok
              THEN /\ cpc' = [cpc EXCEPT ![c] = "read"]
                   /\ UNCHANGED <<lock, got, thist>>
              ELSE /\ cpc' = [cpc EXCEPT ![c] = "failed"]
                   /\ got' = [got EXCEPT ![c] = [kind |-> "err", token |-> 0]]
                   /\ lock' = IF lock = c THEN 0 ELSE lock
                   /\ thist' = [thist EXCEPT !.persistFailed = TRUE]
    /\ UNCHANGED <<now, tokens>>
    /\ UNCHANGED nonTokenVars

\* Ok(guard.access_token().clone()), and the guard is dropped.
ReadToken(c) ==
    /\ cpc[c] = "read"
    /\ got' = [got EXCEPT ![c] = [kind |-> "token", token |-> tokens.access_token]]
    /\ lock' = IF lock = c THEN 0 ELSE lock
    /\ cpc' = [cpc EXCEPT ![c] = "done"]
    /\ UNCHANGED <<now, tokens, persisted, thist>>
    /\ UNCHANGED nonTokenVars

\* Time passes.
Tick ==
    /\ now < MaxTime
    /\ now' = now + 1
    /\ thist' = [thist EXCEPT !.waitedOnSleeper =
                    @ \/ \E c, d \in Callers :
                             cpc[c] = "backoff" /\ lock = c /\ cpc[d] = "lock"]
    /\ UNCHANGED <<tokens, persisted, lock, cpc, got>>
    /\ UNCHANGED nonTokenVars

TokenNext ==
    \/ \E c \in Callers : Call(c)
    \/ \E c \in Callers : Acquire(c)
    \/ \E c \in Callers : CheckAccessToken(c)
    \/ \E c \in Callers : RefreshResponse(c)
    \/ \E c \in Callers : RefreshRateLimited(c)
    \/ \E c \in Callers : RefreshWake(c)
    \/ \E c \in Callers : Persist(c)
    \/ \E c \in Callers : ReadToken(c)
    \/ Tick

SpecToken == TokenInit /\ [][TokenNext]_vars

-----------------------------------------------------------------------------
\* Properties of the token accessor (SpecToken).

\* Every caller asked for the token while the original token was cached and
\* expired.
CalledWhileExpired ==
    \A c \in Callers : thist.atCall[c].expired /\ thist.atCall[c].token = 0

AllReturned == \A c \in Callers : cpc[c] \in {"done", "failed"}

InAccessor(c) == cpc[c] \in {"check", "refresh", "backoff", "persist", "read"}

C12_OneInFlightRefresh ==
    /\ Cardinality({c \in Callers : InAccessor(c)}) <= 1
    /\ \A c \in Callers : InAccessor(c) => lock = c
    /\ Cardinality({c \in Callers : cpc[c] = "refresh"}) <= 1

\* A refresh call is outstanding while another caller waits for the lock.
C12_RefreshWhileOtherWaits ==
    \E c, d \in Callers :
        /\ cpc[c] = "refresh"
        /\ cpc[d] = "lock"
        /\ lock = c

\* C14: Lazy refresh. An accessor call goes on to read the cached token
\* without a refresh call only when now < access_expiry, it sends the refresh
\* call only when now >= access_expiry, and no refresh call is sent by any
\* step other than the expiry check of an accessor call.
C14_LazyRefresh ==
    [][ /\ \A c \in Callers :
            /\ (cpc[c] = "check" /\ cpc'[c] = "read")
                => (now < tokens.expires_at
                    /\ thist'.refreshCalls = thist.refreshCalls)
            /\ (cpc[c] = "check" /\ cpc'[c] = "refresh")
                => (now >= tokens.expires_at
                    /\ thist'.refreshCalls = thist.refreshCalls + 1)
            /\ (cpc[c] = "check" /\ cpc'[c] # "check")
                => cpc'[c] \in {"read", "refresh"}
        /\ thist'.refreshCalls # thist.refreshCalls
            => \E c \in Callers :
                   /\ cpc[c] = "check"
                   /\ cpc'[c] = "refresh"
                   /\ now >= tokens.expires_at
      ]_vars

\* One caller was given the cached token without a refresh, and later,
\* the token having expired, another caller's refresh call is outstanding.
C14_CachedThenRefreshed ==
    \E c, d \in Callers :
        /\ got[c] = [kind |-> "token", token |-> 0]
        /\ cpc[d] = "refresh"
        /\ thist.refreshCalls = 1
        /\ now >= tokens.expires_at

\* C15: Refresh failure leaves credentials intact. The step in which a
\* refresh call fails returns an error to the caller and leaves the cached
\* access token, its expiry, the refresh token and the persisted row as they
\* were.
C15_RefreshFailureKeepsCredentials ==
    [][ \A c \in Callers :
            (cpc[c] = "refresh" /\ cpc'[c] = "failed")
                => /\ tokens' = tokens
                   /\ persisted' = persisted
                   /\ got'[c].kind = "err"
      ]_vars

\* A refresh call has failed after the expiry of the token: the caller has
\* the error and the original, expired token is still cached and persisted.
C15_RefreshFailed ==
    \E c \in Callers :
        /\ cpc[c] = "failed"
        /\ got[c].kind = "err"
        /\ thist.refreshFailed
        /\ ~ thist.persistFailed
        /\ tokens.access_token = 0
        /\ tokens.expires_at >= 1
        /\ now >= tokens.expires_at
        /\ persisted = tokens

-----------------------------------------------------------------------------
(***************************************************************************)
(* http.rs: GenericClient::make_request.  One request, built with or       *)
(* without a bearer token, is executed under                               *)
(* backoff::future::retry(ExponentialBackoff::default(), ..).  Time is     *)
(* counted in ticks from the creation of the backoff policy; InitialInterval,*)
(* MaxInterval and MaxElapsedTime stand for the policy's initial_interval, *)
(* max_interval and max_elapsed_time, the multiplier is 1.5 and the        *)
(* randomization factor 0.5.                                               *)
(***************************************************************************)
nonHttpVars ==
    <<archiveVars, streamVars, tokens, persisted, lock, cpc, got, thist, insertVars,
      openVars, bootVars, serverVars>>

\* The status classes make_request tells apart: 2xx, 429, anything else.
Statuses == { "success", "rate_limited", "failure" }

\* What the body of a response can be: JSON of the expected type T, JSON of
\* the error type E, other UTF-8 text, bytes that are not UTF-8, or a body
\* whose read fails on the connection.
Bodies == { "valid", "structured", "text", "binary", "unreadable" }

\* What one attempt can meet: a failure of the send itself, or a response.
Responses ==
    { NoResponse }
        \cup { [sent |-> TRUE, status |-> st, body |-> b]
                 : st \in Statuses, b \in Bodies }

HttpError(kind, status, carries, n) ==
    [kind |-> kind, status |-> status, carries |-> carries, attempt |-> n]

\* Faulty variant: every non-success status is retried.
RetryClosureRetryFailures(resp, n) ==
    IF ~ resp.sent
    THEN [flow |-> "permanent", err |-> HttpError("transport", "none", "reqwest", n)]
    ELSE IF resp.status # "success"
    THEN [flow |-> "transient",
          err |-> HttpError("rate_limit", resp.status, "text", n)]
    ELSE [flow |-> "ok", err |-> NoError]

\* Faulty variant: a 429 is handed to the caller like any other response.
RetryClosureNoRetry(resp, n) ==
    IF ~ resp.sent
    THEN [flow |-> "permanent", err |-> HttpError("transport", "none", "reqwest", n)]
    ELSE [flow |-> "ok", err |-> NoError]

\* The closure given to retry, for attempt n: a failing execute is a
\* permanent error; on 429 the body is read with text().await.map_err(..)?,
\* whose error the ? operator converts with From into a transient error, and
\* the text becomes a transient Error::Generic; any other response is Ok.
RetryClosure(resp, n) ==
    IF ~ resp.sent
    THEN [flow |-> "permanent", err |-> HttpError("transport", "none", "reqwest", n)]
    ELSE IF resp.status = "rate_limited"
    THEN IF resp.body = "unreadable"
         THEN [flow |-> "transient",
               err |-> HttpError("transport", "rate_limited", "reqwest", n)]
         ELSE [flow |-> "transient",
               err |-> HttpError("rate_limit", "rate_limited", "text", n)]
    ELSE [flow |-> "ok", err |-> NoError]

\* ExponentialBackoff: the randomized interval is drawn from
\* current_interval * [1 - 0.5, 1 + 0.5].
RandomizedIntervals(i) == (i - i \div 2)..(i + i \div 2)

\* ExponentialBackoff: current_interval * 1.5, capped at max_interval.
IncrementInterval(i) ==
    IF i + (i + 1) \div 2 > MaxInterval THEN MaxInterval ELSE i + (i + 1) \div 2

\* Faulty variant: a policy with no max_elapsed_time.
next_backoff_unbounded(elapsed, delay) == delay

\* ExponentialBackoff::next_backoff: None (0) once the elapsed time exceeds
\* max_elapsed_time or the next delay would carry it past; else the delay.
next_backoff(elapsed, delay) ==
    IF elapsed > MaxElapsedTime THEN 0
    ELSE IF elapsed + delay <= MaxElapsedTime THEN delay
    ELSE 0

\* make_request after the retry loop, on the response of attempt n.
Classify(resp, n) ==
    IF resp.status # "success"
    THEN [kind |-> "err",
          err |-> HttpError("status", resp.status,
                     CASE resp.body = "unreadable" -> "status"
                       [] resp.body = "binary" -> "status_bytes"
                       [] resp.body = "structured" -> "payload"
                       [] OTHER -> "status_text",
                     n)]
    ELSE CASE resp.body = "unreadable" ->
                [kind |-> "err", err |-> HttpError("transport", "success", "reqwest", n)]
           [] resp.body = "binary" ->
                [kind |-> "err", err |-> HttpError("decode", "success", "bytes", n)]
           [] resp.body = "valid" ->
                [kind |-> "ok", err |-> NoError]
           [] OTHER ->
                [kind |-> "err", err |-> HttpError("decode", "success", "text", n)]

\* The bearer tokens a request can carry: none, or the token the accessor
\* returned at time 0, which its check found unexpired.
Bearers ==
    { [present |-> FALSE, expires_at |-> 0] }
        \cup { [present |-> TRUE, expires_at |-> e] : e \in 1..(MaxElapsedTime + 2) }

HttpInit ==
    /\ hpc = "send"
    /\ bearer \in Bearers
    /\ interval = InitialInterval
    /\ wakeAt = 0
    /\ response = NoResponse
    /\ outcome = NoOutcome
    /\ hhist = FreshHttpHist
    /\ ArchiveIdle
    /\ StreamIdle
    /\ TokenIdle
    /\ InsertIdle
    /\ OpenIdle
    /\ BootIdle
    /\ ServerIdle

\* self.http_client.execute(request): an attempt is sent.
HttpSend ==
    /\ hpc = "send"
    /\ hpc' = "await"
    /\ hhist' = [hhist EXCEPT
                    !.attempts = @ + 1,
                    !.sentPastExpiry =
                        @ \/ (bearer.present /\ now >= bearer.expires_at),
                    !.sentAfterTransport = @ \/ hhist.transportFailed,
                    !.sentAfterNon429 =
                        @ \/ hhist.lastStatus \in {"success", "failure"}]
    /\ UNCHANGED <<now, bearer, interval, wakeAt, response, outcome>>
    /\ UNCHANGED nonHttpVars

\* The attempt is answered after some latency and the retry loop decides:
\* Ok leaves the loop with the response, a permanent error returns it, a
\* transient error sleeps for the next backoff or, when there is none,
\* returns the error.
HttpRespond ==
    /\ hpc = "await"
    /\ \E resp \in Responses, lat \in 0..MaxLatency,
          delay \in RandomizedIntervals(interval) :
        LET t == now + lat
            rc == RetryClosure(resp, hhist.attempts)
            nb == next_backoff(t, delay)
            h == [hhist EXCEPT
                    !.lastStatus = resp.status,
                    !.only429 = @ /\ resp.sent /\ resp.status = "rate_limited"
                                  /\ resp.body # "unreadable",
                    !.transportFailed =
                        @ \/ ~ resp.sent
                          \/ (resp.status = "rate_limited"
                                /\ resp.body = "unreadable")]
        IN /\ now' = t
           /\ CASE rc.flow = "ok" ->
                    /\ hpc' = "classify"
                    /\ response' = resp
                    /\ hhist' = h
                    /\ UNCHANGED <<interval, wakeAt, outcome>>
                [] rc.flow = "permanent" ->
                    /\ hpc' = "done"
                    /\ outcome' = [kind |-> "err", err |-> rc.err]
                    /\ hhist' = h
                    /\ UNCHANGED <<interval, wakeAt, response>>
                [] OTHER ->
                    IF nb = 0
                    THEN /\ hpc' = "done"
                         /\ outcome' = [kind |-> "err", err |-> rc.err]
                         /\ hhist' = [h EXCEPT !.gaveUpWith = t + delay]
                         /\ UNCHANGED <<interval, wakeAt, response>>
                    ELSE /\ hpc' = "sleep"
                         /\ wakeAt' = t + nb
                         /\ interval' = IncrementInterval(interval)
                         /\ hhist' = h
                         /\ UNCHANGED <<response, outcome>>
    /\ UNCHANGED bearer
    /\ UNCHANGED nonHttpVars

\* The sleep of the retry loop ends.
HttpWake ==
    /\ hpc = "sleep"
    /\ now' = wakeAt
    /\ hpc' = "send"
    /\ UNCHANGED <<bearer, interval, wakeAt, response, outcome, hhist>>
    /\ UNCHANGED nonHttpVars

\* make_request after the retry loop: the status is classified and the body
\* read and decoded.
HttpClassify ==
    /\ hpc = "classify"
    /\ outcome' = Classify(response, hhist.attempts)
    /\ hpc' = "done"
    /\ hhist' = [hhist EXCEPT !.transportFailed =
                                  @ \/ response.body = "unreadable"]
    /\ UNCHANGED <<now, bearer, interval, wakeAt, response>>
    /\ UNCHANGED nonHttpVars

HttpNext ==
    \/ HttpSend
    \/ HttpRespond
    \/ HttpWake
    \/ HttpClassify

SpecHttp == HttpInit /\ [][HttpNext]_vars

\* The runtime polls the future of make_request, every attempt is answered
\* or fails, and every sleep ends.
FairSpecHttp == SpecHttp /\ WF_vars(HttpNext)

-----------------------------------------------------------------------------
\* Properties of the request executor (SpecHttp, FairSpecHttp).

\* C13 as stated: every attempt that carries a bearer token, retries
\* included, is sent strictly before the expiry of the token.
C13_NoUsePastExpiry == ~ hhist.sentPastExpiry

\* C16: Backoff termination. make_request always returns; it never sends
\* more than MaxElapsedTime + 1 attempts; when every attempt was answered
\* with 429 it returns a rate-limit error carrying the body of the most
\* recent attempt, and only when the elapsed time with the next delay exceeds
\* MaxElapsedTime; and once it has returned no attempt is sent.
C16_BackoffTermination ==
    /\ [](hhist.attempts <= MaxElapsedTime + 1)
    /\ []((hpc = "done" /\ hhist.only429)
            => /\ outcome = [kind |-> "err",
                             err |-> HttpError("rate_limit", "rate_limited",
                                               "text", hhist.attempts)]
               /\ hhist.gaveUpWith > MaxElapsedTime)
    /\ [][hpc = "done" => hhist'.attempts = hhist.attempts]_vars
    /\ <>(hpc = "done")

\* make_request has returned the rate-limit error after three or more
\* attempts that were all answered with 429.
C16_GaveUpOn429 ==
    /\ hpc = "done"
    /\ hhist.only429
    /\ hhist.attempts >= 3
    /\ outcome.err.kind = "rate_limit"
    /\ now >= MaxElapsedTime - MaxInterval

\* C17 as stated: after a transport failure, while sending the request or
\* while reading a response, no further attempt is sent, and make_request
\* ends with the transport error.
C17_TransportNeverRetried ==
    /\ ~ hhist.sentAfterTransport
    /\ (hpc = "done" /\ hhist.transportFailed) => outcome.err.kind = "transport"

Shapes == { "full", "left", "right", "twin" }
AttachmentPatterns == { "none", "leaves" }

\* body.attachment_id of the part at a path: None, or an id on a leaf.
AttachmentAt(pattern, path, leaf) ==
    IF pattern = "leaves" /\ leaf
    THEN IF path = <<>> \/ Last(path) % 2 = 0 THEN "a1" ELSE "a2"
    ELSE Null

\* A payload of the given depth whose inner parts have width children: all
\* of full depth, only the first or only the last of full depth, or (twin)
\* the last child carrying the part id of the first.
RECURSIVE PartTree(_, _, _, _, _)
PartTree(path, depth, width, shape, pattern) ==
    LET leaf == depth = 1
        childDepth(i) ==
            CASE shape = "left" -> IF i = 1 THEN depth - 1 ELSE 1
              [] shape = "right" -> IF i = width THEN depth - 1 ELSE 1
              [] OTHER -> depth - 1
        childPath(i) ==
            IF shape = "twin" /\ width > 1 /\ i = width
            THEN Append(path, 0)
            ELSE Append(path, i - 1)
    IN MessagePart(path, AttachmentAt(pattern, path, leaf),
                   IF leaf THEN "d0" ELSE Null,
                   IF leaf THEN <<>>
                   ELSE [i \in 1..width |->
                            PartTree(childPath(i), childDepth(i), width, shape, pattern)])

PartTrees ==
    { PartTree(<<>>, d, w, sh, pat) :
        d \in 1..MaxDepth, w \in 1..MaxChildren,
        sh \in Shapes, pat \in AttachmentPatterns }

\* The label ids of a message: none, stored labels, a label id listed twice,
\* and a label the labels table does not hold.
LabelLists == { <<>>, <<1>>, <<1, MaxLabels>>, <<1, 1>>, <<1, MaxLabels + 1>> }

InsertInputs ==
    { FullMessage(id, ls, tree) :
        id \in 1..MaxMsgs, ls \in LabelLists, tree \in PartTrees }

\* The database before the call: the labels stored, and possibly one message
\* an earlier insert_message committed.
LabelledStore == [EmptyStore EXCEPT !.labels = {[id |-> l] : l \in 1..MaxLabels}]

PriorStores ==
    {LabelledStore} \cup
    { insert_message(LabelledStore,
          FullMessage(id, <<1>>, PartTree(<<>>, 2, MaxChildren, "full", "leaves"))).store :
        id \in 1..MaxMsgs }

\* Faulty variant: the connection is handed out without the mutex.
ConnLockFreeAlways(g) == TRUE

\* self.conn.lock(): the mutex is free.
ConnLockFree(g) == g = "none"

\* Faulty variant: dropping the transaction keeps what its statements wrote.
RollbackKeeps(committed, working) == working

\* The Transaction dropped without commit (DropBehavior::Rollback): the
\* tables are the committed ones again.
Rollback(committed, working) == committed

InTransaction == ipc \in { "message", "labels", "part", "body", "commit" }

InsertInit ==
    /\ db \in PriorStores
    /\ tx = db
    /\ guard = "none"
    /\ ipc = "called"
    /\ imsg \in InsertInputs
    /\ ilabel = 0
    /\ stack = <<>>
    /\ ires = NoInsertResult
    /\ seen = NotSeen
    /\ ihist = [FreshInsertHist EXCEPT !.before = db]
    /\ ArchiveIdle
    /\ StreamIdle
    /\ TokenIdle
    /\ HttpIdle
    /\ OpenIdle
    /\ BootIdle
    /\ ServerIdle

\* insert_message returns: the guard is dropped (after the transaction).
Return(ok, err, committed) ==
    /\ db' = committed
    /\ tx' = committed
    /\ guard' = "none"
    /\ ipc' = "returned"
    /\ ires' = [returned |-> TRUE, ok |-> ok, err |-> err]

\* tr.execute(..)?: the statement changes the tables of the transaction and
\* the function goes on, or it fails and the function returns the error,
\* dropping the transaction.
Execute(res, next, label, parts) ==
    IF res.ok
    THEN /\ tx' = res.store
         /\ ipc' = next
         /\ ilabel' = label
         /\ stack' = parts
         /\ ihist' = [ihist EXCEPT !.statements = @ + 1]
         /\ UNCHANGED <<db, guard, ires>>
    ELSE /\ Return(FALSE, res.err, Rollback(db, tx))
         /\ ihist' = [ihist EXCEPT !.rolledBack = ihist.statements > 0]
         /\ UNCHANGED <<ilabel, stack>>

\* let mut guard = self.conn.lock().unwrap();
InsertLock ==
    /\ ipc = "called"
    /\ ConnLockFree(guard)
    /\ guard' = "insert_message"
    /\ ipc' = "begin"
    /\ UNCHANGED <<db, tx, imsg, ilabel, stack, ires, seen, ihist>>
    /\ UNCHANGED nonInsertVars

\* let tr = guard.transaction()?;
InsertBegin ==
    /\ ipc = "begin"
    /\ \E io \in BOOLEAN :
        IF io
        THEN /\ Return(FALSE, "io", db)
             /\ UNCHANGED <<ilabel, stack, ihist>>
        ELSE /\ tx' = db
             /\ ipc' = "message"
             /\ UNCHANGED <<db, guard, ilabel, stack, ires, ihist>>
    /\ UNCHANGED <<imsg, seen>>
    /\ UNCHANGED nonInsertVars

\* Where the function goes once label i is stored: the next label, or the
\* traversal of the payload.
AfterLabel(message, i) == IF i < Len(message.label_ids) THEN "labels" ELSE "part"

\* tr.execute("INSERT INTO messages ..")?
InsertMessagesRow ==
    /\ ipc = "message"
    /\ \E io \in BOOLEAN :
        Execute(StoreCall(io, tx, InsertMessageRow(tx, imsg)),
                AfterLabel(imsg, 0), 1, <<imsg.payload>>)
    /\ UNCHANGED <<imsg, seen>>
    /\ UNCHANGED nonInsertVars

\* for label_id in &message.label_ids { tr.execute(..)? }
InsertLabelRow ==
    /\ ipc = "labels"
    /\ \E io \in BOOLEAN :
        Execute(StoreCall(io, tx, InsertMessageLabel(tx, imsg, ilabel)),
                AfterLabel(imsg, ilabel), ilabel + 1, stack)
    /\ UNCHANGED <<imsg, seen>>
    /\ UNCHANGED nonInsertVars

\* The popped part: tr.execute("INSERT INTO message_parts ..")?
InsertPartsRow ==
    /\ ipc = "part"
    /\ \E io \in BOOLEAN :
        Execute(StoreCall(io, tx, InsertPartRow(tx, imsg.id, Last(stack))),
                "body", ilabel, stack)
    /\ UNCHANGED <<imsg, seen>>
    /\ UNCHANGED nonInsertVars

\* The popped part: tr.execute("INSERT INTO message_part_body ..")?, then
\* the next pop, the children of the part on the stack.
InsertBodyRow ==
    /\ ipc = "body"
    /\ \E io \in BOOLEAN :
        Execute(StoreCall(io, tx, InsertPartBody(tx, imsg.id, Last(stack))),
                IF PopPush(stack) = <<>> THEN "commit" ELSE "part",
                ilabel, PopPush(stack))
    /\ UNCHANGED <<imsg, seen>>
    /\ UNCHANGED nonInsertVars

\* tr.commit()?; Ok(())
InsertCommit ==
    /\ ipc = "commit"
    /\ \E io \in BOOLEAN :
        IF io
        THEN /\ Return(FALSE, "io", Rollback(db, tx))
             /\ ihist' = [ihist EXCEPT !.rolledBack = TRUE]
        ELSE /\ Return(TRUE, "none", tx)
             /\ UNCHANGED ihist
    /\ UNCHANGED <<imsg, ilabel, stack, seen>>
    /\ UNCHANGED nonInsertVars

\* Another operation of the store (contains_message, message_count,
\* attachment_ids, ..), called through another clone of the Store:
\* self.conn.lock().unwrap() takes the mutex of the shared connection.
ObserveLock ==
    /\ ipc # "idle"
    /\ ~ seen.running
    /\ ConnLockFree(guard)
    /\ guard' = "other"
    /\ seen' = [seen EXCEPT !.running = TRUE]
    /\ UNCHANGED <<db, tx, ipc, imsg, ilabel, stack, ires, ihist>>
    /\ UNCHANGED nonInsertVars

\* The statement of the other operation runs on the shared connection and
\* reads the tables as the connection sees them; the guard, a temporary of
\* the statement, is dropped.
Observe ==
    /\ seen.running
    /\ seen' = [taken |-> TRUE, view |-> tx, running |-> FALSE]
    /\ guard' = IF guard = "other" THEN "none" ELSE guard
    /\ ihist' = [ihist EXCEPT !.readInTransaction = @ \/ InTransaction]
    /\ UNCHANGED <<db, tx, ipc, imsg, ilabel, stack, ires>>
    /\ UNCHANGED nonInsertVars

InsertNext ==
    \/ InsertLock
    \/ InsertBegin
    \/ InsertMessagesRow
    \/ InsertLabelRow
    \/ InsertPartsRow
    \/ InsertBodyRow
    \/ InsertCommit
    \/ ObserveLock
    \/ Observe

SpecInsert == InsertInit /\ [][InsertNext]_vars

\* The rows of a message are all in the tables.
AllRowsPresent(st, m) ==
    /\ \E r \in st.messages : r.id = m.id
    /\ \A i \in 1..Len(m.label_ids) :
           [message_id |-> m.id, label_id |-> m.label_ids[i]] \in st.message_labels
    /\ \A p \in AllParts(m.payload) :
           /\ \E r \in st.message_parts :
                  r.message_id = m.id /\ r.part_id = p.part_id
           /\ \E r \in st.message_part_body :
                  /\ r.message_id = m.id
                  /\ r.part_id = p.part_id
                  /\ r.attachment_id = p.body.attachment_id

\* The part ids of a payload are pairwise distinct.
DistinctPartIds(payload) ==
    Cardinality({p.part_id : p \in AllParts(payload)}) = PartCount(payload)

\* The part tree the rows of a message describe, from the part with the given
\* id down: the part's row, its body row, and its children rows in the order
\* of the recorded children list.
RECURSIVE Reconstruct(_, _, _)
Reconstruct(st, mid, pid) ==
    LET prow == CHOOSE r \in st.message_parts :
                    r.message_id = mid /\ r.part_id = pid
        brow == CHOOSE r \in st.message_part_body :
                    r.message_id = mid /\ r.part_id = pid
    IN MessagePart(pid, brow.attachment_id, brow.data,
                   [i \in 1..Len(prow.children) |->
                        Reconstruct(st, mid, prow.children[i])])

\* C19: insert_message is atomic.  When the call returns Ok, the message row,
\* every message_labels row and every message_parts and message_part_body
\* row of the message are in the database; when it returns an error, whatever
\* statement failed, the database equals the one before the call, no row
\* of the call added; and what any other store operation reads is either the
\* database before the call or one that holds all the rows of the message,
\* and is never read while the transaction is open.
C19_InsertMessageAtomic ==
    /\ (ires.returned /\ ires.ok) =>
           /\ AllRowsPresent(db, imsg)
           /\ \A t \in DOMAIN db : ihist.before[t] \subseteq db[t]
    /\ (ires.returned /\ ~ires.ok) =>
           /\ db = ihist.before
           /\ tx = ihist.before
    /\ seen.taken =>
           /\ seen.view = ihist.before \/ AllRowsPresent(seen.view, imsg)
           /\ ~ihist.readInTransaction

\* C19 witness: a statement failed after earlier statements of the call had
\* succeeded, the call returned the error, and another operation read the
\* database afterwards.
C19_RolledBackMidInsert ==
    /\ ires.returned
    /\ ~ires.ok
    /\ ihist.rolledBack
    /\ ihist.statements >= 3
    /\ seen.taken
    /\ seen.view = db

\* C20: flattening round trip.  After a successful insert_message of a message
\* whose part ids are distinct, every part of the payload has exactly one
\* message_parts row, whose children list is the part's child part ids in
\* order, and exactly one message_part_body row, whose attachment id is the
\* part's (NULL when it has none); there are no other part rows of the message,
\* and the rows rebuild the payload.
C20_FlatteningRoundTrip ==
    (ires.returned /\ ires.ok /\ DistinctPartIds(imsg.payload)) =>
        LET prows == {r \in db.message_parts : r.message_id = imsg.id}
            brows == {r \in db.message_part_body : r.message_id = imsg.id}
        IN /\ \A p \in AllParts(imsg.payload) :
                  /\ \E r \in prows : r.part_id = p.part_id
                  /\ \A r \in prows :
                         r.part_id = p.part_id =>
                             r.children = [i \in 1..Len(p.parts) |-> p.parts[i].part_id]
                  /\ \E r \in brows : r.part_id = p.part_id
                  /\ \A r \in brows :
                         r.part_id = p.part_id =>
                             r.attachment_id = p.body.attachment_id
           /\ Cardinality(prows) = PartCount(imsg.payload)
           /\ Cardinality(brows) = PartCount(imsg.payload)
           /\ Reconstruct(db, imsg.id, imsg.payload.part_id) = imsg.payload

\* C20 witness: a message of three levels, with parts of more than one child
\* and parts with and without an attachment id, was inserted.
C20_InsertedNestedTree ==
    /\ ires.returned
    /\ ires.ok
    /\ DistinctPartIds(imsg.payload)
    /\ \E p \in AllParts(imsg.payload) :
           Len(p.part_id) = 2 /\ p.body.attachment_id # Null
    /\ \E p \in AllParts(imsg.payload) :
           Len(p.parts) >= 2 /\ p.body.attachment_id = Null


\* C30: Retry until a non-429 answer.  An attempt answered with 429 puts the
\* retry loop to sleep when next_backoff gives a delay, and returns the
\* rate-limit error only when the elapsed time with the next delay exceeds
\* MaxElapsedTime; every sleep is followed by one more attempt, and the
\* request (its bearer token) is the same for every attempt.  The first
\* response with another status leaves the loop, no attempt follows it, and
\* the result is the classification of that response.  The result is set
\* once, never changed, and always set eventually.
C30_RetryUntilNon429 ==
    /\ [][(hpc = "await" /\ hhist'.lastStatus = "rate_limited")
            => \/ hpc' = "sleep" /\ outcome' = NoOutcome
               \/ /\ hpc' = "done"
                  /\ hhist'.gaveUpWith > MaxElapsedTime
                  /\ outcome'.err.status = "rate_limited"]_vars
    /\ \A n \in 1..(MaxElapsedTime + 1) :
           (hpc = "sleep" /\ hhist.attempts = n) ~> (hhist.attempts = n + 1)
    /\ [][bearer' = bearer]_vars
    /\ [][(hpc = "await" /\ hhist'.lastStatus \in {"success", "failure"})
            => hpc' = "classify" /\ response'.status = hhist'.lastStatus]_vars
    /\ [](~ hhist.sentAfterNon429)
    /\ []((hpc = "done" /\ response # NoResponse)
            => /\ response.status # "rate_limited"
               /\ outcome = Classify(response, hhist.attempts))
    /\ [][outcome # NoOutcome => outcome' = outcome]_vars
    /\ [](hpc = "done" <=> outcome # NoOutcome)
    /\ <>(outcome # NoOutcome)

\* make_request has returned the decoded body of its third or later attempt,
\* the earlier ones having been answered with 429.
C30_AnsweredAfterRetries ==
    /\ hpc = "done"
    /\ hhist.attempts >= 3
    /\ response.status = "success"
    /\ outcome.kind = "ok"
    /\ bearer.present

-----------------------------------------------------------------------------
(***************************************************************************)
(* Store::open and init_or_migrate_db over the lifetime of one database    *)
(* file.  The file is opened once per run of the program, up to MaxRuns    *)
(* times.  The batch of init_or_migrate_db is not wrapped in a             *)
(* transaction: execute_batch runs its statements one after the other,     *)
(* each committed on its own, and stops at the first that fails.  A        *)
(* statement can fail because its object already exists or because the     *)
(* write fails, and the process can end between two statements.  Rows      *)
(* stand for the rows the inserts of a run add while the store is open, up *)
(* to MaxMsgs.                                                             *)
(***************************************************************************)

\* The version init_or_migrate_db accepts.
CurrentVersion == 0

\* The versions a marker can hold: the current one and a later one.
Versions == { CurrentVersion, CurrentVersion + 1 }

\* The objects the statements of the batch create, in order.
Batch ==
    << "tokens", "message_list_visibility", "label_list_visibility",
       "label_type", "labels", "messages", "message_labels", "message_parts",
       "message_part_body", "message_attachments", "raw_messages", "version" >>

\* A file with the whole schema, a marker and some rows.
CompleteFile(v, n) == [objects |-> Range(Batch), version |-> {v}, rows |-> n]

\* conn.query_row("SELECT * FROM version", [], |row| row.get(0)): an error
\* when the table is missing or has no row, else the value of the row.
query_version(f) ==
    IF "version" \in f.objects /\ f.version # {}
    THEN [ok |-> TRUE, version |-> CHOOSE v \in f.version : TRUE]
    ELSE [ok |-> FALSE, version |-> CurrentVersion]

\* The files a first open can meet: a new file, or a complete store written
\* by this or by a later version of the program.
OpenInit ==
    /\ file \in { NoFile }
                \cup { CompleteFile(v, n) : v \in Versions, n \in 0..MaxMsgs }
    /\ fileAtOpen = file
    /\ opc = "closed"
    /\ stmt = 0
    /\ opens = 0
    /\ ohist = FreshOpenHist
    /\ ArchiveIdle
    /\ StreamIdle
    /\ TokenIdle
    /\ HttpIdle
    /\ InsertIdle
    /\ BootIdle
    /\ ServerIdle

\* Store::open: Connection::open(path), then init_or_migrate_db.
open ==
    /\ opc = "closed"
    /\ opens < MaxRuns
    /\ opens' = opens + 1
    /\ opc' = "query"
    /\ fileAtOpen' = file
    /\ ohist' = [ohist EXCEPT !.marker = "unread", !.statements = 0,
                              !.result = "none", !.wrote = FALSE]
    /\ UNCHANGED <<file, stmt>>
    /\ UNCHANGED nonOpenVars

\* init_or_migrate_db: the version query and the match on its result.
init_or_migrate_db ==
    /\ opc = "query"
    /\ LET q == query_version(file)
       IN IF q.ok
          THEN IF q.version = CurrentVersion
               THEN /\ opc' = "opened"
                    /\ ohist' = [ohist EXCEPT !.marker = "known", !.result = "ok"]
                    /\ UNCHANGED stmt
               ELSE /\ opc' = "failed"
                    /\ ohist' = [ohist EXCEPT !.marker = "other", !.result = "err"]
                    /\ UNCHANGED stmt
          ELSE /\ opc' = "batch"
               /\ stmt' = 1
               /\ ohist' = [ohist EXCEPT !.marker = "none"]
    /\ UNCHANGED <<file, fileAtOpen, opens>>
    /\ UNCHANGED nonOpenVars

\* execute_batch: the next statement runs.  It fails when its object exists,
\* and the batch ends with that error; else the object is created and
\* committed, the last statement creating the marker with its row.
ExecuteStatement ==
    /\ opc = "batch"
    /\ LET h == [ohist EXCEPT
                    !.statements = @ + 1,
                    !.creations = IF stmt = 1 THEN @ + 1 ELSE @]
       IN IF Batch[stmt] \in file.objects
          THEN /\ opc' = "failed"
               /\ ohist' = [h EXCEPT !.result = "err"]
               /\ UNCHANGED <<file, stmt>>
          ELSE /\ file' = [file EXCEPT
                              !.objects = @ \cup {Batch[stmt]},
                              !.version = IF Batch[stmt] = "version"
                                          THEN {CurrentVersion} ELSE @]
               /\ IF stmt = Len(Batch)
                  THEN /\ opc' = "opened"
                       /\ ohist' = [h EXCEPT !.result = "ok"]
                       /\ UNCHANGED stmt
                  ELSE /\ stmt' = stmt + 1
                       /\ ohist' = h
                       /\ UNCHANGED opc
    /\ UNCHANGED <<fileAtOpen, opens>>
    /\ UNCHANGED nonOpenVars

\* execute_batch: the write of the next statement fails, or the process
\* ends before it runs.  What the earlier statements committed stays.
ExecuteInterrupted ==
    /\ opc = "batch"
    /\ opc' = "failed"
    /\ ohist' = [ohist EXCEPT !.result = "err",
                              !.interrupted = @ \/ stmt > 1]
    /\ UNCHANGED <<file, fileAtOpen, stmt, opens>>
    /\ UNCHANGED nonOpenVars

\* A run inserts a row into the open store.
InsertRow ==
    /\ opc = "opened"
    /\ file.rows < MaxMsgs
    /\ file' = [file EXCEPT !.rows = @ + 1]
    /\ ohist' = [ohist EXCEPT !.wrote = TRUE]
    /\ UNCHANGED <<fileAtOpen, opc, stmt, opens>>
    /\ UNCHANGED nonOpenVars

\* The run ends: main returns, with the error of open or after its work.
Exit ==
    /\ opc \in {"opened", "failed"}
    /\ opc' = "closed"
    /\ UNCHANGED <<file, fileAtOpen, stmt, opens, ohist>>
    /\ UNCHANGED nonOpenVars

OpenNext ==
    \/ open
    \/ init_or_migrate_db
    \/ ExecuteStatement
    \/ ExecuteInterrupted
    \/ InsertRow
    \/ Exit

SpecOpen == OpenInit /\ [][OpenNext]_vars

\* C22 as stated: Versioned open.  An open that finds the known version
\* runs no statement of the batch, succeeds and leaves the file as it was;
\* an open that finds another version fails and leaves the file as it was;
\* an open that finds no marker creates the schema and the marker, and over
\* all the opens of a file the batch is started at most once.  It fails
\* when an earlier batch stopped after its first statement.
C22_VersionedOpen ==
    /\ ohist.marker = "known"
        => /\ ohist.statements = 0
           /\ ohist.result = "ok"
           /\ ~ ohist.wrote => file = fileAtOpen
    /\ ohist.marker = "other"
        => /\ ohist.statements = 0
           /\ ohist.result = "err"
           /\ file = fileAtOpen
    /\ opc = "opened"
        => /\ file.objects = Range(Batch)
           /\ file.version = {CurrentVersion}
    /\ ohist.creations <= 1

\* The parts of C22 that hold whatever happens to the batch: the opens that
\* find a marker change nothing and run no statement, an open succeeds only
\* on a complete schema with the known version, and a batch that is not
\* interrupted is never started a second time.
C22_MarkerDecidesOpen ==
    /\ ohist.marker = "known"
        => /\ ohist.statements = 0
           /\ ohist.result = "ok"
           /\ ~ ohist.wrote => file = fileAtOpen
    /\ ohist.marker = "other"
        => /\ ohist.statements = 0
           /\ ohist.result = "err"
           /\ file = fileAtOpen
    /\ opc = "opened"
        => /\ file.objects = Range(Batch)
           /\ file.version = {CurrentVersion}
    /\ ~ ohist.interrupted => ohist.creations <= 1

\* After an interrupted batch, the file has objects and no marker, and a
\* later open has run the batch again and failed on its first statement.
C22_CreationRunAgain ==
    /\ ohist.creations = 2
    /\ opc = "failed"
    /\ file.objects # {}
    /\ file.version = {}

-----------------------------------------------------------------------------
(***************************************************************************)
(* main.rs: the token bootstrap over the starts of the program on one      *)
(* database, and the tokens table behind it.  A row of the table is a      *)
(* credential set, its refresh token the primary key.  Refresh tokens and  *)
(* access tokens are numbered; the authorization server and the refresh    *)
(* endpoint grant up to MaxGrants access tokens, each a new one, and a     *)
(* handshake grants any refresh token.  The program is started up to       *)
(* MaxRuns times.                                                          *)
(***************************************************************************)
RefreshTokens == 1..MaxRuns

\* Faulty variant: the query finds nothing.
load_tokens_none(table) == { NoTokens }

\* load_tokens: query_row("SELECT * FROM tokens", ..).optional(): None when
\* the table has no row, else the first row the query returns, which is any
\* row of the table.
load_tokens(table) == IF table = {} THEN { NoTokens } ELSE table

\* set_tokens: INSERT OR REPLACE INTO tokens, replacing the row of the same
\* refresh token.
set_tokens(table, t) ==
    {r \in table : r.refresh_token # t.refresh_token} \cup {t}

\* The statement of update_access_token over the table: UPDATE tokens SET
\* access_token = ?, expires_at = ? with no WHERE clause, every row.
UpdateEveryRow(table, token) ==
    {[r EXCEPT !.access_token = token] : r \in table}

BootInit ==
    /\ tokensTable = {}
    /\ bpc = "down"
    /\ oauthTokens = NoTokens
    /\ boots = 0
    /\ bhist = FreshBootHist
    /\ ArchiveIdle
    /\ StreamIdle
    /\ TokenIdle
    /\ HttpIdle
    /\ InsertIdle
    /\ OpenIdle
    /\ ServerIdle

\* main is started: Store::open and ClientCredentials::load_from_file.
BootStart ==
    /\ bpc = "down"
    /\ boots < MaxRuns
    /\ boots' = boots + 1
    /\ bpc' = "load"
    /\ oauthTokens' = NoTokens
    /\ UNCHANGED <<tokensTable, bhist>>
    /\ UNCHANGED nonBootVars

\* match store.load_tokens()? { Some(tokens) => OAuthClient::new(creds,
\* tokens), None => the authorization flow }
LoadTokens ==
    /\ bpc = "load"
    /\ \E io \in BOOLEAN, row \in load_tokens(tokensTable) :
        IF io
        THEN /\ bpc' = "down"
             /\ UNCHANGED oauthTokens
        ELSE IF row = NoTokens
        THEN /\ bpc' = "authorize"
             /\ UNCHANGED oauthTokens
        ELSE /\ bpc' = "running"
             /\ oauthTokens' = row
    /\ UNCHANGED <<tokensTable, boots, bhist>>
    /\ UNCHANGED nonBootVars

\* OAuthClient::authorize(creds).await?: the handshake fails, or grants a
\* refresh token and a new access token.
Authorize ==
    /\ bpc = "authorize"
    /\ \E remote \in RemoteOutcomes, rt \in RefreshTokens :
        IF remote = "err" \/ bhist.grants >= MaxGrants
        THEN /\ bpc' = "down"
             /\ bhist' = [bhist EXCEPT
                             !.handshakes = @ + 1,
                             !.handshakeWithRow = @ \/ tokensTable # {}]
             /\ UNCHANGED oauthTokens
        ELSE /\ bpc' = "set_tokens"
             /\ oauthTokens' = [refresh_token |-> rt,
                                access_token |-> bhist.grants + 1]
             /\ bhist' = [bhist EXCEPT
                             !.grants = @ + 1,
                             !.handshakes = @ + 1,
                             !.handshakeWithRow = @ \/ tokensTable # {}]
    /\ UNCHANGED <<tokensTable, boots>>
    /\ UNCHANGED nonBootVars

\* store.set_tokens(oauth_client.tokens())?
SetTokens ==
    /\ bpc = "set_tokens"
    /\ \E io \in BOOLEAN :
        IF io
        THEN /\ bpc' = "down"
             /\ UNCHANGED <<tokensTable, bhist>>
        ELSE /\ bpc' = "running"
             /\ tokensTable' = set_tokens(tokensTable, oauthTokens)
             /\ bhist' = [bhist EXCEPT !.setWithRow = @ \/ tokensTable # {}]
    /\ UNCHANGED <<oauthTokens, boots>>
    /\ UNCHANGED nonBootVars

\* The token accessor refreshes the access token during the run and the
\* update is written with update_access_token; when the write fails the
\* error ends the run.
RefreshAndPersist ==
    /\ bpc = "running"
    /\ bhist.grants < MaxGrants
    /\ \E io \in BOOLEAN :
        LET token == bhist.grants + 1
        IN /\ oauthTokens' = [oauthTokens EXCEPT !.access_token = token]
           /\ tokensTable' = IF io THEN tokensTable
                             ELSE UpdateEveryRow(tokensTable, token)
           /\ bhist' = [bhist EXCEPT
                           !.grants = @ + 1,
                           !.updates = IF io THEN @ ELSE @ + 1,
                           !.overwroteOther =
                               @ \/ (~ io /\ \E r \in tokensTable :
                                        r.refresh_token # oauthTokens.refresh_token)]
           /\ bpc' = IF io THEN "down" ELSE bpc
    /\ UNCHANGED boots
    /\ UNCHANGED nonBootVars

\* main returns, with the result of fetch_everything.
BootExit ==
    /\ bpc = "running"
    /\ bpc' = "down"
    /\ UNCHANGED <<tokensTable, oauthTokens, boots, bhist>>
    /\ UNCHANGED nonBootVars

BootNext ==
    \/ BootStart
    \/ LoadTokens
    \/ Authorize
    \/ SetTokens
    \/ RefreshAndPersist
    \/ BootExit

SpecBoot == BootInit /\ [][BootNext]_vars

\* C37: Single credential row.  The tokens table never holds more than one
\* row; the handshake and set_tokens run only while the table is empty; and
\* update_access_token never writes the access token into a row of a refresh
\* token other than the one of the running process.
C37_SingleCredentialRow ==
    /\ Cardinality(tokensTable) <= 1
    /\ ~ bhist.handshakeWithRow
    /\ ~ bhist.setWithRow
    /\ bpc \in {"authorize", "set_tokens"} => tokensTable = {}
    /\ ~ bhist.overwroteOther
    /\ (bpc = "running" /\ tokensTable # {})
        => \A r \in tokensTable : r.refresh_token = oauthTokens.refresh_token

\* A later start of the program loaded the row a handshake of an earlier
\* start had stored, and an access token refreshed since was written to it.
C37_ReloadedAndUpdated ==
    /\ boots >= 2
    /\ bpc = "running"
    /\ bhist.handshakes = 1
    /\ bhist.updates >= 1
    /\ tokensTable = {oauthTokens}
    /\ oauthTokens.access_token = bhist.grants

-----------------------------------------------------------------------------
(***************************************************************************)
(* oauth/server.rs: wait_response and the callback handler.  The listener  *)
(* serves up to NumCallbacks requests to /callback, concurrently, on a     *)
(* multi-threaded runtime: the steps of ServerState::complete of two       *)
(* handlers can interleave.  A request is the parameters of its query:     *)
(* state (the generated one, another one, or none), code and error.  The   *)
(* server shuts down gracefully: once the token is cancelled it returns    *)
(* when no handler is running.                                             *)
(***************************************************************************)
Requests ==
    [state : {"match", "other", "absent"}, code : BOOLEAN, error : BOOLEAN,
     sent : {TRUE}]

\* Query<AuthorizationResponse>, an untagged enum: the first variant whose
\* fields are all present, fields it does not name being ignored; Success
\* needs state and code, Error needs error; a query that fits neither is
\* rejected by the extractor and the handler does not run.
DeserializeAuthorizationResponse(req) ==
    IF req.state # "absent" /\ req.code THEN "Success"
    ELSE IF req.error THEN "Error"
    ELSE "Rejected"

\* Faulty variant: the slot keeps its sender.
TakeSenderKeeps(slot) == slot

\* self.inner.tx.lock().unwrap().take(): what the slot holds afterwards.
TakeSender(slot) == FALSE

\* The handler has called exchange_code_for_tokens.
Exchanged(k) ==
    cbpc[k] \in {"exchange", "exchange_failed", "cancel", "take", "send", "success"}

\* The handler is in, or past, ServerState::complete.
Completing(k) == cbpc[k] \in {"cancel", "take", "send", "success"}

\* The handler is running.
Handling(k) == cbpc[k] \in {"exchange", "cancel", "take", "send"}

ServerInit ==
    /\ cbpc = [k \in Callbacks |-> "idle"]
    /\ cbreq = [k \in Callbacks |-> NoRequest]
    /\ cancelled = FALSE
    /\ sender = TRUE
    /\ delivered = 0
    /\ wpc = "serving"
    /\ ArchiveIdle
    /\ StreamIdle
    /\ TokenIdle
    /\ HttpIdle
    /\ InsertIdle
    /\ OpenIdle
    /\ BootIdle

\* callback: a request arrives, its query is deserialized, and the match
\* returns the error of an Error response or of a state that differs, or
\* goes on to the exchange.
callback(k) ==
    /\ wpc = "serving"
    /\ cbpc[k] = "idle"
    /\ \E req \in Requests :
        /\ cbreq' = [cbreq EXCEPT ![k] = req]
        /\ cbpc' = [cbpc EXCEPT ![k] =
                CASE DeserializeAuthorizationResponse(req) = "Rejected" -> "bad_query"
                  [] DeserializeAuthorizationResponse(req) = "Error" -> "authz_error"
                  [] req.state # "match" -> "invalid_state"
                  [] OTHER -> "exchange"]
    /\ UNCHANGED <<cancelled, sender, delivered, wpc>>
    /\ UNCHANGED nonServerVars

\* server_state.client().exchange_code_for_tokens(code).await?
ExchangeCode(k) ==
    /\ cbpc[k] = "exchange"
    /\ \E remote \in RemoteOutcomes :
        cbpc' = [cbpc EXCEPT ![k] = IF remote = "ok" THEN "cancel" ELSE "exchange_failed"]
    /\ UNCHANGED <<cbreq, cancelled, sender, delivered, wpc>>
    /\ UNCHANGED nonServerVars

\* complete: self.inner.cancel.cancel()
CompleteCancel(k) ==
    /\ cbpc[k] = "cancel"
    /\ cancelled' = TRUE
    /\ cbpc' = [cbpc EXCEPT ![k] = "take"]
    /\ UNCHANGED <<cbreq, sender, delivered, wpc>>
    /\ UNCHANGED nonServerVars

\* complete: let maybe_sender = self.inner.tx.lock().unwrap().take()
CompleteTake(k) ==
    /\ cbpc[k] = "take"
    /\ sender' = TakeSender(sender)
    /\ cbpc' = [cbpc EXCEPT ![k] = IF sender THEN "send" ELSE "success"]
    /\ UNCHANGED <<cbreq, cancelled, delivered, wpc>>
    /\ UNCHANGED nonServerVars

\* complete: if let Some(sender) = maybe_sender { let _ = sender.send(client) }
CompleteSend(k) ==
    /\ cbpc[k] = "send"
    /\ delivered' = delivered + 1
    /\ cbpc' = [cbpc EXCEPT ![k] = "success"]
    /\ UNCHANGED <<cbreq, cancelled, sender, wpc>>
    /\ UNCHANGED nonServerVars

\* wait_response: axum::serve(..).with_graceful_shutdown(..).await? ends
\* once the token is cancelled and no handler is running; Ok(rx.await?)
wait_response ==
    /\ wpc = "serving"
    /\ cancelled
    /\ \A k \in Callbacks : ~ Handling(k)
    /\ wpc' = "returned"
    /\ UNCHANGED <<cbpc, cbreq, cancelled, sender, delivered>>
    /\ UNCHANGED nonServerVars

ServerNext ==
    \/ \E k \in Callbacks : callback(k)
    \/ \E k \in Callbacks : ExchangeCode(k)
    \/ \E k \in Callbacks : CompleteCancel(k)
    \/ \E k \in Callbacks : CompleteTake(k)
    \/ \E k \in Callbacks : CompleteSend(k)
    \/ wait_response

SpecServer == ServerInit /\ [][ServerNext]_vars

\* The rest of the protocol, whatever callbacks arrive: the token is
\* cancelled and a client sent only after a callback with the generated
\* state whose exchange succeeded, and at most one client is ever sent.
DeliveredOnce ==
    /\ cancelled
        => \E k \in Callbacks :
               cbreq[k].state = "match" /\ cbpc[k] \in {"take", "send", "success"}
    /\ delivered <= 1
    /\ delivered = 1
        => /\ cancelled
           /\ ~ sender
           /\ \E k \in Callbacks : cbreq[k].state = "match" /\ cbpc[k] = "success"
    /\ wpc = "returned" => delivered = 1

\* C38 as stated: Authorization callback protocol.  A callback whose state
\* differs from the generated state, or that reports an error, never
\* triggers the exchange and never cancels the listener; the listener is
\* cancelled and the client delivered only after a callback with matching
\* state whose exchange succeeded, and at most once.  It fails for a
\* callback that reports an error and also carries the generated state and
\* a code.
C38_CallbackProtocol ==
    /\ \A k \in Callbacks :
           (cbreq[k].sent /\ (cbreq[k].state # "match" \/ cbreq[k].error))
               => ~ Exchanged(k) /\ ~ Completing(k)
    /\ DeliveredOnce

\* C38: Authorization callback protocol, by the parameters of the query.  A
\* callback whose state differs from the generated state or is missing, or
\* that carries no code, as an error report of the authorization server
\* does, never triggers the exchange and never cancels the listener; only a
\* callback with the generated state and a code triggers the exchange, its
\* error parameter, if any, ignored.  The listener is cancelled and the
\* client delivered only after a callback with matching state whose
\* exchange succeeded, and the client is delivered at most once, also when
\* several such callbacks complete concurrently.
C38_CallbackProtocolByFields ==
    /\ \A k \in Callbacks :
           (cbreq[k].sent /\ (cbreq[k].state # "match" \/ ~ cbreq[k].code))
               => ~ Exchanged(k) /\ ~ Completing(k)
    /\ \A k \in Callbacks :
           (cbreq[k].sent /\ cbreq[k].state = "match" /\ cbreq[k].code)
               => Exchanged(k)
    /\ DeliveredOnce

\* Two callbacks with the generated state and a code, the first of them
\* with an error parameter as well, were exchanged and completed; a third,
\* with an error and no code, was refused; wait_response returned with the
\* one client that was sent.
C38_TwoValidCallbacksOneClient ==
    /\ wpc = "returned"
    /\ delivered = 1
    /\ cbpc[1] = "success"
    /\ cbpc[2] = "success"
    /\ cbreq[1].error
    /\ cbpc[3] = "authz_error"
    /\ cbreq[3].state = "match"

-----------------------------------------------------------------------------
\* Further properties of the archive run (SpecArchive).

\* No table of the store holds a row of the message.
NothingStoredOf(st, mid) ==
    /\ ~ \E r \in st.messages : r.id = mid
    /\ \A t \in { "message_labels", "message_parts", "message_part_body",
                  "message_attachments", "raw_messages" } :
           ~ \E r \in st[t] : r.message_id = mid

\* C21: a decode failure does not corrupt the store.  When the remote answers
\* a fetch with a record whose internal_date or base64 text is malformed, the
\* run exits with an error, the step leaves every table as it was, and
\* nothing of the record is stored: no row of the message, no row of the
\* attachment, no row of the raw form.
C21_DecodeFailureKeepsStore ==
    /\ [](hist.malformed # "none" =>
            /\ pc = "exit_err"
            /\ hist.errored
            /\ \A t \in DOMAIN store : storeAtStart[t] \subseteq store[t]
            /\ hist.malformed = "message" => NothingStoredOf(store, cursor)
            /\ hist.malformed = "attachment" =>
                   ~ \E r \in store.message_attachments :
                         r.message_id = cursor /\ r.attachment_id = Head(attQueue)
            /\ hist.malformed = "raw" =>
                   ~ \E r \in store.raw_messages : r.message_id = cursor)
    /\ [][(hist.malformed = "none" /\ hist'.malformed # "none") => store' = store]_vars

\* C21 witness: the second listed message came back malformed after the first
\* had been stored, and the run exited with the first still stored.
C21_MalformedSecondMessage ==
    /\ hist.malformed = "message"
    /\ pc = "exit_err"
    /\ cursor = 2
    /\ \E r \in store.messages : r.id = 1
    /\ \E r \in store.raw_messages : r.message_id = 1

\* C23: duplicate keys are rejected and never attempted.  On every store the
\* run reaches, insert_label, insert_message, insert_attachment and
\* insert_raw_message with a primary key the store holds fail and return the
\* store unchanged; the control loop reaches an insert only from the matching
\* contains_* check having found the key absent, and never issues an insert
\* for a key the store holds.
C23_DuplicateKeysRejected ==
    /\ \A r \in store.labels :
           LET res == insert_label(store, [id |-> r.id])
           IN ~ res.ok /\ res.store = store
    /\ \A r \in store.messages : \A v \in MessageVariants :
           LET res == insert_message(store, FullMessage(r.id, v.label_ids, v.payload))
           IN ~ res.ok /\ res.store = store
    /\ \A r \in store.message_attachments :
           LET res == insert_attachment(store, r.message_id, r.attachment_id)
           IN ~ res.ok /\ res.store = store
    /\ \A r \in store.raw_messages :
           LET res == insert_raw_message(store, r.message_id)
           IN ~ res.ok /\ res.store = store
    /\ pc = "label_fetch" => ~ \E r \in store.labels : r.id = Head(labelQueue)
    /\ pc = "msg_fetch" => ~ \E r \in store.messages : r.id = cursor
    /\ pc = "att_fetch" =>
           ~ \E r \in store.message_attachments :
                 r.message_id = cursor /\ r.attachment_id = Head(attQueue)
    /\ pc = "raw_fetch" => ~ \E r \in store.raw_messages : r.message_id = cursor
    /\ ~ hist.insertedHeld

\* C23 witness: a run that resumed on a store holding labels, messages,
\* attachments and raw forms has inserted further rows next to them.
C23_InsertedNextToHeldRows ==
    /\ Resumed
    /\ hist.inserts > 0
    /\ storeAtStart.labels # {}
    /\ storeAtStart.messages # {}
    /\ storeAtStart.message_attachments # {}
    /\ storeAtStart.raw_messages # {}

\* C24: the archive is append-only.  Every step of every run leaves each row
\* of each table in place with its fields as they were: a table after the step
\* holds every row it held before it.
C24_AppendOnly ==
    [][\A t \in DOMAIN store : store[t] \subseteq store'[t]]_vars

\* C24 witness: a third run has added attachment rows to a message that
\* already had some.
C24_GrewOverThreeRuns ==
    /\ run = 3
    /\ \E r \in storeAtStart.message_attachments :
           \E q \in store.message_attachments \ storeAtStart.message_attachments :
               q.message_id = r.message_id

\* C26: existence checks suppress fetches.  No detail fetch (label, full
\* message, attachment, raw form) is issued for an entity the store holds at
\* that moment; a run that follows a completed run issues no detail fetch.
C26_ChecksSuppressFetches ==
    /\ ~ hist.fetchedHeld
    /\ prevOutcome = "exit_ok" => hist.fetches = 0

\* C26 witness: a resumed run completed having fetched less than everything:
\* the store held messages at its start and it still made detail fetches.
C26_ResumedFetchedTheRest ==
    /\ Resumed
    /\ pc = "exit_ok"
    /\ storeAtStart.messages # {}
    /\ storeAtStart.raw_messages # {}
    /\ hist.fetches > 0

\* C27: attachment back-fill.  When a run completes, for every listed message
\* the store held at the start of the run, the attachments the run fetched are
\* exactly the attachment ids recorded on its parts that the store lacked at
\* the start, and every attachment id recorded on its parts is stored.
C27_AttachmentBackfill ==
    pc = "exit_ok" =>
        \A i \in 1..Len(mailbox.messages) :
            (\E r \in storeAtStart.messages : r.id = i) =>
                LET refs == ReferencedAttachments(mailbox.messages[i].payload)
                    had == {r.attachment_id :
                                r \in {q \in storeAtStart.message_attachments :
                                           q.message_id = i}}
                IN /\ {p[2] : p \in {q \in hist.backfilled : q[1] = i}} = refs \ had
                   /\ \A a \in refs :
                          [message_id |-> i, attachment_id |-> a]
                              \in store.message_attachments

\* C27 witness: a run completed on a message that was stored with one of its
\* two attachments, and fetched the other.
C27_BackfilledMissingAttachment ==
    /\ pc = "exit_ok"
    /\ \E i \in 1..Len(mailbox.messages) :
           /\ \E r \in storeAtStart.messages : r.id = i
           /\ \E r \in storeAtStart.message_attachments : r.message_id = i
           /\ \E p \in hist.backfilled : p[1] = i

\* C28: attachments are fetched only when needed.  No attachment fetch is
\* issued for an attachment id that a part of the message carries together
\* with inline data.
C28_NoFetchForInlinePart == ~ hist.fetchedInline

\* Every row that refers to a message, a label or a part refers to a stored one.
ReferencesHold(st) ==
    /\ \A r \in st.message_labels :
           contains_message(st, r.message_id) /\ contains_label(st, r.label_id)
    /\ \A t \in { "message_parts", "message_part_body", "message_attachments",
                  "raw_messages" } :
           \A r \in st[t] : contains_message(st, r.message_id)
    /\ \A r \in st.message_part_body :
           \E q \in st.message_parts :
               q.message_id = r.message_id /\ q.part_id = r.part_id

\* Where the control loop checks, fetches and inserts the attachments and
\* the raw form of the message in hand.
DetailPcs == { "att_loop", "att_fetch", "raw_check", "raw_fetch" }

\* C34: Referential integrity.  In every store state every message_labels
\* row refers to a stored message and a stored label, every message_parts,
\* message_part_body, message_attachments and raw_messages row refers to a
\* stored message, and every message_part_body row to a stored part; and
\* whenever the control loop is at the attachments or the raw form of a
\* message, the message has its messages row.
C34_ReferentialIntegrity ==
    /\ ReferencesHold(store)
    /\ pc \in DetailPcs => contains_message(store, cursor)

\* The run is about to fetch and insert the raw form of its second message,
\* whose label rows and attachment rows it has stored.
C34_DetailsOfStoredMessage ==
    /\ pc = "raw_fetch"
    /\ cursor = 2
    /\ \E r \in store.message_labels : r.message_id = cursor
    /\ \E r \in store.message_attachments : r.message_id = cursor
    /\ \E r \in store.message_part_body : r.message_id = cursor
    /\ store.raw_messages # {}

\* C36: Repeated attachment ids.  No attachment of a message is fetched
\* twice in a run, also when several parts of the message carry its id, and
\* no insert of an attachment is issued for a key the table holds: whenever
\* the run is about to fetch and insert an attachment, the table has no row
\* for it.
C36_RepeatedAttachmentIds ==
    /\ ~ hist.refetched
    /\ pc = "att_fetch"
        => /\ attQueue # <<>>
           /\ ~ contains_message_attachment(store, cursor, Head(attQueue))

\* In its first run the program has fetched and stored the attachment that
\* two parts of the message in hand carry, and has come to the second
\* reference to it.
C36_SecondReferenceSkipped ==
    /\ pc = "att_loop"
    /\ prevOutcome = "none"
    /\ RemoteMessage(mailbox, cursor).payload = NestedPayload
    /\ attQueue = <<"a1">>
    /\ <<cursor, "a1">> \in hist.backfilled
    /\ contains_message_attachment(store, cursor, "a1")

\* A label id of the message has no labels row.
MissingLabel(st, message) ==
    \E i \in 1..Len(message.label_ids) : ~ contains_label(st, message.label_ids[i])

\* fetch_messages is running.
MessagePhasePcs == { "msg_next", "msg_fetch" } \cup DetailPcs

\* C35: Labels before messages.  While a run is in its message phase every
\* listed label has its labels row, and messages rows are added only there;
\* a message with a label id that has no labels row is never stored, and the
\* step that fetches and inserts it leaves the store as it was and ends the
\* run with the error at that message.
C35_LabelsBeforeMessages ==
    /\ [](pc \in MessagePhasePcs
            => \A l \in Range(mailbox.labels) : contains_label(store, l))
    /\ [][store'.messages # store.messages => pc = "msg_fetch"]_vars
    /\ [](\A i \in 1..Len(mailbox.messages) :
              MissingLabel(store, RemoteMessage(mailbox, i))
                  => NothingStoredOf(store, i))
    /\ [][(pc = "msg_fetch" /\ MissingLabel(store, RemoteMessage(mailbox, cursor)))
            => /\ store' = store
               /\ cursor' = cursor
               /\ pc' \in {"exit_err", "crashed"}]_vars

\* The run stored its first message and exited with a constraint error at
\* its second, which carries a label id the label listing did not return.
C35_AbortedOnUnknownLabel ==
    /\ pc = "exit_err"
    /\ hist.constraintFailed
    /\ cursor = 2
    /\ MissingLabel(store, RemoteMessage(mailbox, cursor))
    /\ contains_message(store, 1)
    /\ NothingStoredOf(store, cursor)

-----------------------------------------------------------------------------
\* Further properties of the token accessor (SpecToken).

C29_PersistBeforeReplace ==
    /\ tokens.access_token # 0 =>
           /\ persisted.access_token = tokens.access_token
           /\ persisted.expires_at = tokens.expires_at
    /\ (thist.persistFailed /\ thist.refreshCalls = 1) => tokens.access_token = 0

-----------------------------------------------------------------------------
\* Further properties of insert_message (SpecInsert).

\* The rows of a table that carry a message id.
RowsOf(table, mid) == {r \in table : r.message_id = mid}

\* C32: Row counts of insert_message.  After a successful insert_message of a
\* message with L label ids and a payload of P parts, the database holds for
\* its id exactly one messages row, L message_labels rows, P message_parts
\* rows and P message_part_body rows, a parts row and a body row for every
\* part of the tree, the root included.
C32_RowCounts ==
    (ires.returned /\ ires.ok) =>
        /\ Cardinality({r \in db.messages : r.id = imsg.id}) = 1
        /\ Cardinality(RowsOf(db.message_labels, imsg.id)) = Len(imsg.label_ids)
        /\ Cardinality(RowsOf(db.message_parts, imsg.id)) = PartCount(imsg.payload)
        /\ Cardinality(RowsOf(db.message_part_body, imsg.id))
              = PartCount(imsg.payload)
        /\ \A p \in AllParts(imsg.payload) :
               /\ \E r \in RowsOf(db.message_parts, imsg.id) : r.part_id = p.part_id
               /\ \E r \in RowsOf(db.message_part_body, imsg.id) :
                      r.part_id = p.part_id

\* A message with two label ids and a payload of five or more parts was
\* inserted next to a message stored earlier.
C32_InsertedLabelsAndParts ==
    /\ ires.returned
    /\ ires.ok
    /\ Len(imsg.label_ids) = 2
    /\ PartCount(imsg.payload) >= 5
    /\ ihist.before.messages # {}
    /\ ihist.statements = 1 + 2 + 2 * PartCount(imsg.payload)

\* insert_message is between taking the guard and its return.
InsertExecuting == ipc \in { "begin", "message", "labels", "part", "body", "commit" }

\* C33: Serialized database access.  insert_message and another operation of
\* the store are never both executing on the shared connection: whoever
\* executes holds the mutex; no other operation starts, runs its statement
\* or reads the tables between the first statement of an insert_message
\* transaction and its commit or rollback.
C33_SerializedAccess ==
    /\ [](~ (InsertExecuting /\ seen.running))
    /\ [](InsertExecuting => guard = "insert_message")
    /\ [](seen.running => guard = "other")
    /\ [](~ ihist.readInTransaction)
    /\ [][(InsertExecuting /\ InsertExecuting') => seen' = seen]_vars
    /\ [][seen.running => UNCHANGED <<db, tx, ipc, ilabel, stack, ires>>]_vars

\* Another operation read the tables as they were before the call, and
\* insert_message ran its transaction of five or more statements to the
\* commit with no other operation in between.
C33_InsertWaitedForOther ==
    /\ ires.returned
    /\ ires.ok
    /\ seen.taken
    /\ seen.view = ihist.before
    /\ ~ seen.running
    /\ ihist.statements >= 5
    /\ db # ihist.before

-----------------------------------------------------------------------------
\* Further properties of the message stream (SpecStream).

\* C31: Bounded channel backpressure.  The channel never holds more than
\* ChannelCapacity items; while it is full and the consumer has not dropped
\* the stream, no step adds an item to it, and a task that has reached
\* tx.send stays there, its state unchanged, until the consumer takes an
\* item or drops the stream.
C31_BoundedBackpressure ==
    /\ [](Len(chan) <= ChannelCapacity)
    /\ [][(Len(chan) = ChannelCapacity /\ rx = "open")
            => \/ Len(chan') < Len(chan)
               \/ rx' = "dropped"
               \/ chan' = chan]_vars
    /\ [][(Len(chan) = ChannelCapacity /\ rx = "open"
                /\ spc \in {"send", "send_err"})
            => \/ /\ Len(chan') = Len(chan) - 1
                  /\ Len(received') = Len(received) + 1
                  /\ UNCHANGED <<spc, sending, futures, pageIdx, shist>>
               \/ /\ rx' = "dropped"
                  /\ UNCHANGED <<spc, sending, futures, pageIdx, shist>>]_vars

\* The channel is full, the consumer has taken nothing and still holds the
\* stream, and the task is in tx.send with the next item.
C31_BlockedOnFullChannel ==
    /\ Len(chan) = ChannelCapacity
    /\ rx = "open"
    /\ received = <<>>
    /\ spc = "send"
    /\ sending = OkItem(ChannelCapacity + 1)

====
